---- MODULE Spec2Model ----
(***************************************************************************)
(* Model of the agent harness: the turn-control loop (src/core/loop.py),   *)
(* the context manager (src/core/compaction.py), the LLM client's cost     *)
(* guard (src/llm/client.py) and the tool registry's batch executor        *)
(* (src/tools/registry.py).                                                *)
(*                                                                         *)
(* A text is modelled by what the code reads of it: its length in          *)
(* characters (n) and its kind (k), which tells the literal strings the    *)
(* code compares against (the prune marker, the incompleteness phrase).    *)
(***************************************************************************)
EXTENDS Integers, Sequences, FiniteSets, TLC

VARIABLES
    messages,            \* loop.py: the loop's transcript
    prev_messages,       \* loop.py: deep copy of the last known good transcript
    cached_messages,     \* loop.py: the transcript the next llm.chat receives
    context_messages,    \* loop.py: what manage_context returned this iteration
    iteration,           \* loop.py: outer loop counter
    attempt,             \* loop.py: retry counter of the current iteration
    total_cost,          \* loop.py: cost accumulated by the loop
    verification_phase,  \* loop.py: "none" | "first" | "confirmation"
    verification_result, \* loop.py: text kept from the first verification
    llm_total_cost,      \* client.py: LiteLLMClient._total_cost
    turn_failed,         \* number of turn.failed events emitted
    turn_completed,      \* number of turn.completed events emitted
    is_done,             \* number of ctx.done() calls
    pc,                  \* "loop" | "attempt" | "done" | "idle"
    exit_reason,         \* which statement left the loop
    good_snapshot,       \* history: transcript at the last successful call
    tool_free,           \* history: tool-call-free responses since phase none
    sent,                \* history: the transcript last handed to llm.chat,
                         \* by the loop or by run_compaction
    calls,               \* registry.py execute_batch: the submitted calls
    futures,             \* registry.py execute_batch: state of each future
    results,             \* registry.py execute_batch: the results list
    collected,           \* registry.py execute_batch: futures collected, in order
    returned,            \* registry.py execute_batch: the returned list
    bpc,                 \* execute_batch position
    transcript,          \* the argument of a context-manager function
    output,              \* what the function returned for it
    again,               \* what it returned when applied to its own output
    compact_ids,         \* run_compaction: the positions chosen for the summary
    called,              \* run_compaction: whether the summarizer was called
    forced,    \* manage_context: the flag it was called with
    recalled,            \* whether the second application called the summarizer
    fpc,                 \* "idle" | "start" | "applied" | "reapplied"
    config,              \* registry.py: ToolRegistry._config
    cache,               \* registry.py: ToolRegistry._cache
    stats,               \* registry.py: ToolRegistry._stats
    now,                 \* time.time()
    workers,             \* registry.py execute: the position of each thread in it
    stored               \* history: the last successful result stored per key

loopVars == <<messages, prev_messages, cached_messages, iteration, attempt,
              total_cost, verification_phase, verification_result,
              llm_total_cost, turn_failed, turn_completed, is_done, pc,
              exit_reason, good_snapshot, tool_free, sent, context_messages>>
batchVars == <<calls, futures, results, collected, returned, bpc>>
fnVars == <<transcript, output, again, compact_ids, called, forced,
           recalled, fpc>>
regVars == <<config, cache, stats, now, workers, stored>>
vars == <<messages, prev_messages, cached_messages, iteration, attempt,
          total_cost, verification_phase, verification_result,
          llm_total_cost, turn_failed, turn_completed, is_done, pc,
          exit_reason, good_snapshot, tool_free, sent, context_messages,
          calls, futures, results, collected, returned, bpc,
          transcript, output, again, compact_ids, called, forced,
          recalled, fpc,
          config, cache, stats, now, workers, stored>>

----------------------------------------------------------------------------
(* Program constants *)

APPROX_CHARS_PER_TOKEN == 4
MODEL_CONTEXT_LIMIT == 200000
OUTPUT_TOKEN_MAX == 32000
AUTO_COMPACT_THRESHOLD_PCT == 60
CONFIG_AUTO_COMPACT_THRESHOLD_PCT == 85
COMPACT_TARGET_PCT == 45
SUMMARY_TOKEN_ESTIMATE == 4096
PRUNE_PROTECT == 40000
PRUNE_MINIMUM == 20000
PRUNE_MARKER_LEN == 33
MAX_IMAGES_PER_REQUEST == 100
IMAGE_PRUNE_TARGET == 10
IMAGE_PRUNE_MARKER_LEN == 27
IMAGE_HARD_BUFFER == 5
IMAGE_TOKENS == 1000
ROLE_OVERHEAD == 4
PROTECTED_MESSAGE_COUNT == 2
PROTECT_LAST_TURNS == 2
PREVIOUS_OUTPUT_PREFIX_LEN == 23
SUMMARY_PREFIX_LEN == 298
COMPACTION_PROMPT_LEN == 551
MAX_RETRIES == 5
MAX_IMAGES_PER_TURN == 5
IMMEDIATE_PRUNE_MARGIN == 10
MAX_CACHED_SYSTEM == 2
MAX_CACHED_FINAL == 2
SYSTEM_PROMPT_LEN == 32352
INITIAL_STATE_WRAP_LEN == 37
VERIFICATION_PROMPT_LEN == 6546
VERIFICATION_CONFIRMATION_LEN == 1689
CONTINUE_PROMPT_LEN == 216
INVALID_NOTICE_LEN == 159
IMAGE_CAPTION_LEN == 12
MAX_CONCURRENT == 4

(* Bounds of the model *)

MaxIterations == 4      \* config max_iterations
CostLimit == 2          \* config cost_limit, shared by the loop and the client
MaxCost == 1            \* largest cost of one response
SmallLen == 40          \* a short text, in characters
BigLen == 240000        \* a tool output at the truncation limit (max_output_tokens 60000)
NameLen == 13           \* a tool name
ArgsLen == 24           \* a tool call's JSON arguments
InstrLen == 200         \* the task instruction
EnvLen == 480           \* environment section and initial listing
MaxBatch == 4           \* calls in one execute_batch
MaxRepairLen == 3       \* messages in a transcript handed to the orphan repair
MaxCompactLen == 5      \* messages after the protected ones handed to run_compaction
MaxPruneLen == 6        \* messages in a transcript handed to the pruner
MidLen == 160000        \* a tool output of exactly PRUNE_PROTECT tokens
MinLen == 80000         \* a tool output of exactly PRUNE_MINIMUM tokens
MaxImageLen == 4        \* messages in a transcript handed to the image evictor
MaxCacheLen == 5        \* messages in a transcript handed to _apply_caching
MaxManageLen == 5       \* messages after the protected ones handed to manage_context
MaxEstimateLen == 2     \* messages in a transcript handed to the estimator
MaxParts == 2           \* parts, and tool calls, of one such message
MaxPureLen == 4         \* messages after the protected ones handed to each transform
MaxPriorTurns == 18     \* image turns a run may have behind it
MaxImageTurns == 3      \* image turns that follow
CacheTtl == 2           \* config cache_ttl, in ticks of the clock
CacheLimit == 1         \* entries the cache holds before it evicts (1000 in registry.py)
MaxTime == 4            \* ticks of the clock
MaxExecutions == 3      \* calls of execute
MaxWorkers == 2         \* threads that may be inside execute at once
MaxEvictLen == 5        \* messages in a transcript handed to the eviction steps

NoId == -1

CallCounts == {1, 2}    \* numbers of tool calls one response may carry
CallIds == {1, 2}       \* tool-call ids the model may emit

----------------------------------------------------------------------------
(* Texts, parts and messages *)

Txt(k, n) == [k |-> k, n |-> n]
EmptyText == Txt("plain", 0)
PRUNE_MARKER == Txt("prune_marker", PRUNE_MARKER_LEN)
IMAGE_PRUNE_MARKER == Txt("image_marker", IMAGE_PRUNE_MARKER_LEN)

TextPart(t, c) == [type |-> "text", text |-> t, cache |-> c]
ImagePart(ty) == [type |-> ty, text |-> EmptyText, cache |-> FALSE]

StrContent(t) == [list |-> FALSE, text |-> t, parts |-> <<>>]
ListContent(ps) == [list |-> TRUE, text |-> EmptyText, parts |-> ps]

Msg(r, c, tcs, id) ==
    [role |-> r, content |-> c, tool_calls |-> tcs, tool_call_id |-> id]
SystemMsg(t) == Msg("system", StrContent(t), <<>>, NoId)
UserMsg(t) == Msg("user", StrContent(t), <<>>, NoId)
AssistantMsg(t, tcs) == Msg("assistant", StrContent(t), tcs, NoId)
ToolMsg(id, t) == Msg("tool", StrContent(t), <<>>, id)

ToolCall(id) == [id |-> id, name |-> NameLen, arguments |-> ArgsLen]

\* sum(...) over a sequence, by halves
RECURSIVE SumSeq(_)
SumSeq(s) ==
    IF Len(s) = 0 THEN 0
    ELSE IF Len(s) = 1 THEN s[1]
    ELSE LET h == Len(s) \div 2
         IN  SumSeq(SubSeq(s, 1, h)) + SumSeq(SubSeq(s, h + 1, Len(s)))

Max2(a, b) == IF a >= b THEN a ELSE b

----------------------------------------------------------------------------
(* Token estimation: compaction.py *)

estimate_tokens(t) == Max2(0, t.n \div APPROX_CHARS_PER_TOKEN)

estimate_part_tokens(p) ==
    estimate_tokens(p.text) + (IF p.type = "image_url" THEN IMAGE_TOKENS ELSE 0)

\* variant: each part overwrites the count of the parts before it
estimate_message_tokensOverwriting(m) ==
    (IF m.content.list
       THEN (IF m.content.parts = <<>> THEN 0
             ELSE estimate_part_tokens(m.content.parts[Len(m.content.parts)]))
       ELSE estimate_tokens(m.content.text))
    + SumSeq([i \in 1..Len(m.tool_calls) |->
                 (m.tool_calls[i].name \div APPROX_CHARS_PER_TOKEN)
                 + (m.tool_calls[i].arguments \div APPROX_CHARS_PER_TOKEN)])
    + ROLE_OVERHEAD

estimate_message_tokens(m) ==
    (IF m.content.list
       THEN SumSeq([i \in 1..Len(m.content.parts) |->
                        estimate_part_tokens(m.content.parts[i])])
       ELSE estimate_tokens(m.content.text))
    + SumSeq([i \in 1..Len(m.tool_calls) |->
                 (m.tool_calls[i].name \div APPROX_CHARS_PER_TOKEN)
                 + (m.tool_calls[i].arguments \div APPROX_CHARS_PER_TOKEN)])
    + ROLE_OVERHEAD

estimate_total_tokens(ms) ==
    SumSeq([i \in 1..Len(ms) |-> estimate_message_tokens(ms[i])])

get_usable_context == MODEL_CONTEXT_LIMIT - OUTPUT_TOKEN_MAX

is_overflow(total_tokens) ==
    total_tokens * 100 > get_usable_context * AUTO_COMPACT_THRESHOLD_PCT

----------------------------------------------------------------------------
(* Tool-output pruner: compaction.py prune_old_tool_outputs *)

IsPruneMarker(c) == ~c.list /\ c.text = PRUNE_MARKER

\* estimate_tokens(content) of a message content (len(content) // 4)
ContentTokens(c) ==
    IF c.list THEN Len(c.parts) \div APPROX_CHARS_PER_TOKEN
    ELSE estimate_tokens(c.text)

\* variant: an output is a candidate as soon as the total reaches the budget
RECURSIVE PruneScanInclusive(_, _, _)
PruneScanInclusive(ms, i, st) ==
    IF i = 0 THEN st
    ELSE LET msg == ms[i]
             turns == st.turns + (IF msg.role = "user" THEN 1 ELSE 0)
             st1 == [st EXCEPT !.turns = turns]
         IN  IF turns < PROTECT_LAST_TURNS THEN PruneScanInclusive(ms, i - 1, st1)
             ELSE IF msg.role # "tool" THEN PruneScanInclusive(ms, i - 1, st1)
             ELSE IF IsPruneMarker(msg.content) THEN st1
             ELSE LET estimate == ContentTokens(msg.content)
                      total == st.total + estimate
                  IN  IF total >= PRUNE_PROTECT
                      THEN PruneScanInclusive(ms, i - 1,
                               [st1 EXCEPT !.total = total,
                                           !.pruned = st.pruned + estimate,
                                           !.to_prune = st.to_prune \cup {i}])
                      ELSE PruneScanInclusive(ms, i - 1, [st1 EXCEPT !.total = total])

\* variant: the scan passes over an already pruned output and goes on
RECURSIVE PruneScanPastMarker(_, _, _)
PruneScanPastMarker(ms, i, st) ==
    IF i = 0 THEN st
    ELSE LET msg == ms[i]
             turns == st.turns + (IF msg.role = "user" THEN 1 ELSE 0)
             st1 == [st EXCEPT !.turns = turns]
         IN  IF turns < PROTECT_LAST_TURNS THEN PruneScanPastMarker(ms, i - 1, st1)
             ELSE IF msg.role # "tool" THEN PruneScanPastMarker(ms, i - 1, st1)
             ELSE IF IsPruneMarker(msg.content) THEN PruneScanPastMarker(ms, i - 1, st1)
             ELSE LET estimate == ContentTokens(msg.content)
                      total == st.total + estimate
                  IN  IF total > PRUNE_PROTECT
                      THEN PruneScanPastMarker(ms, i - 1,
                               [st1 EXCEPT !.total = total,
                                           !.pruned = st.pruned + estimate,
                                           !.to_prune = st.to_prune \cup {i}])
                      ELSE PruneScanPastMarker(ms, i - 1, [st1 EXCEPT !.total = total])

\* the backward scan; st = [total, pruned, to_prune, turns]
RECURSIVE PruneScan(_, _, _)
PruneScan(ms, i, st) ==
    IF i = 0 THEN st
    ELSE LET msg == ms[i]
             turns == st.turns + (IF msg.role = "user" THEN 1 ELSE 0)
             st1 == [st EXCEPT !.turns = turns]
         IN  IF turns < PROTECT_LAST_TURNS THEN PruneScan(ms, i - 1, st1)
             ELSE IF msg.role # "tool" THEN PruneScan(ms, i - 1, st1)
             ELSE IF IsPruneMarker(msg.content) THEN st1
             ELSE LET estimate == ContentTokens(msg.content)
                      total == st.total + estimate
                  IN  IF total > PRUNE_PROTECT
                      THEN PruneScan(ms, i - 1,
                               [st1 EXCEPT !.total = total,
                                           !.pruned = st.pruned + estimate,
                                           !.to_prune = st.to_prune \cup {i}])
                      ELSE PruneScan(ms, i - 1, [st1 EXCEPT !.total = total])

PruneDecision(ms) ==
    PruneScan(ms, Len(ms), [total |-> 0, pruned |-> 0, to_prune |-> {}, turns |-> 0])

\* variant: whatever was marked is pruned, however little it recovers
prune_old_tool_outputsNoMinimum(ms) ==
    IF ms = <<>> THEN ms
    ELSE LET d == PruneDecision(ms)
         IN  [i \in 1..Len(ms) |->
                 IF i \in d.to_prune
                 THEN [ms[i] EXCEPT !.content = StrContent(PRUNE_MARKER)]
                 ELSE ms[i]]

\* variant: a pruned output is cut to half its length instead of marked
prune_old_tool_outputsHalving(ms) ==
    IF ms = <<>> THEN ms
    ELSE LET d == PruneDecision(ms)
         IN  IF d.pruned <= PRUNE_MINIMUM THEN ms
             ELSE [i \in 1..Len(ms) |->
                      IF i \in d.to_prune
                      THEN [ms[i] EXCEPT !.content =
                               StrContent(Txt("plain", ms[i].content.text.n \div 2))]
                      ELSE ms[i]]

prune_old_tool_outputs(ms) ==
    IF ms = <<>> THEN ms
    ELSE LET d == PruneDecision(ms)
         IN  IF d.pruned <= PRUNE_MINIMUM THEN ms
             ELSE [i \in 1..Len(ms) |->
                      IF i \in d.to_prune
                      THEN [ms[i] EXCEPT !.content = StrContent(PRUNE_MARKER)]
                      ELSE ms[i]]

----------------------------------------------------------------------------
(* Image evictor: compaction.py prune_old_images *)

IsImagePart(p) == p.type = "image_url" \/ p.type = "image"

count_images_in_message(m) ==
    IF m.content.list
    THEN Cardinality({i \in 1..Len(m.content.parts) : IsImagePart(m.content.parts[i])})
    ELSE 0

count_total_images(ms) ==
    SumSeq([i \in 1..Len(ms) |-> count_images_in_message(ms[i])])

is_image_analyzed(ms, i) == \E j \in (i + 1)..Len(ms) : ms[j].role = "assistant"

\* one pass over the image-bearing messages from position i on, oldest first,
\* while removed < need; st = [set, removed]. A message is taken when the
\* images taken before it do not yet reach need.
ImagePass(ms, i, need, wantAnalyzed, st) ==
    LET cnt == [j \in 1..Len(ms) |-> count_images_in_message(ms[j])]
        cands == {j \in i..Len(ms) :
                     cnt[j] > 0 /\ is_image_analyzed(ms, j) = wantAnalyzed
                                /\ j \notin st.set}
        before(j) == st.removed
                     + SumSeq([k \in 1..(j - i) |->
                                  IF (i + k - 1) \in cands THEN cnt[i + k - 1] ELSE 0])
        taken == {j \in cands : before(j) < need}
    IN  [set |-> st.set \cup taken,
         removed |-> st.removed
                     + SumSeq([k \in 1..(Len(ms) - i + 1) |->
                                  IF (i + k - 1) \in taken THEN cnt[i + k - 1] ELSE 0])]

ImagesToRemove(total_images, max_images) ==
    IF total_images > MAX_IMAGES_PER_REQUEST
    THEN Max2(total_images - max_images,
              total_images - (MAX_IMAGES_PER_REQUEST - IMAGE_HARD_BUFFER))
    ELSE total_images - max_images

\* variant: only analyzed images are ever selected
ImageSelectionAnalyzedOnly(ms, max_images) ==
    LET total_images == count_total_images(ms)
        need == ImagesToRemove(total_images, max_images)
    IN  ImagePass(ms, 1, need, TRUE, [set |-> {}, removed |-> 0])

ImageSelection(ms, max_images) ==
    LET total_images == count_total_images(ms)
        need == ImagesToRemove(total_images, max_images)
        p1 == ImagePass(ms, 1, need, TRUE, [set |-> {}, removed |-> 0])
    IN  IF p1.removed < need /\ total_images > MAX_IMAGES_PER_REQUEST
        THEN ImagePass(ms, 1, need, FALSE, p1)
        ELSE p1

\* variant: the image parts of a selected message are dropped
ReplaceImagesDropping(m) ==
    IF ~m.content.list THEN m
    ELSE [m EXCEPT !.content.parts =
              SelectSeq(m.content.parts, LAMBDA p : ~IsImagePart(p))]

ReplaceImages(m) ==
    IF ~m.content.list THEN m
    ELSE [m EXCEPT !.content.parts =
              [k \in 1..Len(m.content.parts) |->
                  IF IsImagePart(m.content.parts[k])
                  THEN TextPart(IMAGE_PRUNE_MARKER, FALSE)
                  ELSE m.content.parts[k]]]

prune_old_images(ms, max_images) ==
    IF count_total_images(ms) <= max_images THEN ms
    ELSE LET sel == ImageSelection(ms, max_images)
         IN  IF sel.set = {} THEN ms
             ELSE [i \in 1..Len(ms) |->
                      IF i \in sel.set THEN ReplaceImages(ms[i]) ELSE ms[i]]

----------------------------------------------------------------------------
(* Orphan repair and AI compaction: compaction.py *)

\* ids are truthy unless 0 (the empty string) or absent
Truthy(id) == id # 0 /\ id # NoId

MaxToolCalls(ms) ==
    LET ns == {Len(ms[i].tool_calls) : i \in 1..Len(ms)}
    IN  IF ns = {} THEN 0 ELSE CHOOSE n \in ns : \A m \in ns : m <= n

ValidToolCallIds(ms) ==
    {ms[i].tool_calls[k].id :
        <<i, k>> \in {p \in (1..Len(ms)) \X (1..MaxToolCalls(ms)) :
                         /\ ms[p[1]].role = "assistant"
                         /\ p[2] <= Len(ms[p[1]].tool_calls)
                         /\ Truthy(ms[p[1]].tool_calls[p[2]].id)}}

IsOrphan(m, valid) ==
    m.role = "tool" /\ Truthy(m.tool_call_id) /\ m.tool_call_id \notin valid

ContentLen(c) ==
    IF c.list THEN SumSeq([k \in 1..Len(c.parts) |-> c.parts[k].text.n])
    ELSE c.text.n

ContentTruthy(c) == IF c.list THEN c.parts # <<>> ELSE c.text.n > 0

\* variant: an orphan keeps its tool role and only gains the prefix
RECURSIVE RepairFromKeepRole(_, _, _)
RepairFromKeepRole(ms, i, valid) ==
    IF i > Len(ms) THEN <<>>
    ELSE IF IsOrphan(ms[i], valid)
         THEN (IF ContentTruthy(ms[i].content) /\ ~IsPruneMarker(ms[i].content)
               THEN <<ToolMsg(ms[i].tool_call_id, Txt("previous_output",
                          PREVIOUS_OUTPUT_PREFIX_LEN + ContentLen(ms[i].content)))>>
               ELSE <<>>) \o RepairFromKeepRole(ms, i + 1, valid)
         ELSE <<ms[i]>> \o RepairFromKeepRole(ms, i + 1, valid)

RECURSIVE RepairFrom(_, _, _)
RepairFrom(ms, i, valid) ==
    IF i > Len(ms) THEN <<>>
    ELSE IF IsOrphan(ms[i], valid)
         THEN (IF ContentTruthy(ms[i].content) /\ ~IsPruneMarker(ms[i].content)
               THEN <<UserMsg(Txt("previous_output",
                          PREVIOUS_OUTPUT_PREFIX_LEN + ContentLen(ms[i].content)))>>
               ELSE <<>>) \o RepairFrom(ms, i + 1, valid)
         ELSE <<ms[i]>> \o RepairFrom(ms, i + 1, valid)

remove_orphaned_tool_messages(ms) == RepairFrom(ms, 1, ValidToolCallIds(ms))

Slice(ms, a, b) == [i \in 1..(IF b >= a THEN b - a + 1 ELSE 0) |-> ms[a + i - 1]]

Min2(a, b) == IF a <= b THEN a ELSE b

\* positions (1-based) of the assistant messages after the protected prefix
RECURSIVE AssistantPositions(_, _)
AssistantPositions(ms, i) ==
    IF i > Len(ms) THEN <<>>
    ELSE (IF ms[i].role = "assistant" THEN <<i>> ELSE <<>>)
         \o AssistantPositions(ms, i + 1)

\* variant: the last k in lo..hi whose suffix fits, or 0
RECURSIVE LastFitting(_, _, _, _, _)
LastFitting(ms, a, k, hi, max_kept) ==
    IF k > hi THEN 0
    ELSE IF estimate_total_tokens(Slice(ms, a[hi], Len(ms))) <= max_kept THEN hi
    ELSE LastFitting(ms, a, k, hi - 1, max_kept)

\* first k in lo..hi with estimate(ms[a[k]:]) <= max_kept, or 0
RECURSIVE FirstFitting(_, _, _, _, _)
FirstFitting(ms, a, k, hi, max_kept) ==
    IF k > hi THEN 0
    ELSE IF estimate_total_tokens(Slice(ms, a[k], Len(ms))) <= max_kept THEN k
    ELSE FirstFitting(ms, a, k + 1, hi, max_kept)

\* variant: one assistant message is enough to cut at
CompactionStartOneAssistant(ms, target_tokens) ==
    LET np == Min2(PROTECTED_MESSAGE_COUNT, Len(ms))
        protected_tokens == estimate_total_tokens(Slice(ms, 1, np))
        compactable_tokens == estimate_total_tokens(Slice(ms, np + 1, Len(ms)))
        max_kept_tokens == target_tokens - protected_tokens - SUMMARY_TOKEN_ESTIMATE
        a == AssistantPositions(ms, PROTECTED_MESSAGE_COUNT + 1)
    IN  IF protected_tokens + compactable_tokens <= target_tokens THEN 0
        ELSE IF Len(a) < 1 THEN 0
        ELSE IF Len(a) = 1 THEN a[1]
        ELSE LET k == FirstFitting(ms, a, 1, Len(a) - 1, max_kept_tokens)
             IN  IF k # 0 THEN a[k] ELSE a[Len(a) - 1]

\* variant: the cut falls just behind the chosen assistant message
CompactionStartBehind(ms, target_tokens) ==
    LET np == Min2(PROTECTED_MESSAGE_COUNT, Len(ms))
        protected_tokens == estimate_total_tokens(Slice(ms, 1, np))
        compactable_tokens == estimate_total_tokens(Slice(ms, np + 1, Len(ms)))
        max_kept_tokens == target_tokens - protected_tokens - SUMMARY_TOKEN_ESTIMATE
        a == AssistantPositions(ms, PROTECTED_MESSAGE_COUNT + 1)
    IN  IF protected_tokens + compactable_tokens <= target_tokens THEN 0
        ELSE IF Len(a) < 2 THEN 0
        ELSE LET k == FirstFitting(ms, a, 1, Len(a) - 1, max_kept_tokens)
             IN  IF k # 0 THEN a[k] + 1 ELSE a[Len(a) - 1] + 1

\* position of the first kept message; 0 when nothing is to be compacted
CompactionStart(ms, target_tokens) ==
    LET np == Min2(PROTECTED_MESSAGE_COUNT, Len(ms))
        protected_tokens == estimate_total_tokens(Slice(ms, 1, np))
        compactable_tokens == estimate_total_tokens(Slice(ms, np + 1, Len(ms)))
        max_kept_tokens == target_tokens - protected_tokens - SUMMARY_TOKEN_ESTIMATE
        a == AssistantPositions(ms, PROTECTED_MESSAGE_COUNT + 1)
    IN  IF protected_tokens + compactable_tokens <= target_tokens THEN 0
        ELSE IF Len(a) < 2 THEN 0
        ELSE LET k == FirstFitting(ms, a, 1, Len(a) - 1, max_kept_tokens)
             IN  IF k # 0 THEN a[k] ELSE a[Len(a) - 1]

\* the indices to compact, as the set of 1-based positions
find_messages_to_compact(ms, target_tokens) ==
    LET start == CompactionStart(ms, target_tokens)
    IN  IF start = 0 THEN {} ELSE (PROTECTED_MESSAGE_COUNT + 1)..(start - 1)

DefaultTargetTokens == (get_usable_context * COMPACT_TARGET_PCT) \div 100

SummaryMsg(t) == UserMsg(Txt("summary", SUMMARY_PREFIX_LEN + t.n))

\* the summarisation request: the repaired block to compact, then the prompt
compaction_messages(ms, start) ==
    Append(remove_orphaned_tool_messages(Slice(ms, PROTECTED_MESSAGE_COUNT + 1, start - 1)),
           UserMsg(Txt("compaction_prompt", COMPACTION_PROMPT_LEN)))

\* variant: an abandoned compaction returns the transcript without the block
AbandonedLossy(ms, start) ==
    Slice(ms, 1, PROTECTED_MESSAGE_COUNT) \o Slice(ms, start, Len(ms))

\* "Compaction failed": return messages
Abandoned(ms, start) == ms

\* variant: only the system prompt is kept in front of the summary
SplicedSystemOnly(ms, start, text) ==
    Slice(ms, 1, 1) \o <<SummaryMsg(text)>> \o Slice(ms, start, Len(ms))

\* variant: the summary is put in front of the protected messages
SplicedSummaryFirst(ms, start, text) ==
    <<SummaryMsg(text)>> \o Slice(ms, 1, PROTECTED_MESSAGE_COUNT)
                        \o Slice(ms, start, Len(ms))

\* compacted: protected messages, the summary, the messages to keep
Spliced(ms, start, text) ==
    Slice(ms, 1, PROTECTED_MESSAGE_COUNT) \o <<SummaryMsg(text)>>
                                         \o Slice(ms, start, Len(ms))

\* out: the outcome of the nested llm.chat, [kind, text, cost];
\* result: [messages, called, request, cost]
run_compaction(ms, out) ==
    LET ids == find_messages_to_compact(ms, DefaultTargetTokens)
        start == CompactionStart(ms, DefaultTargetTokens)
    IN  IF ids = {}
        THEN [messages |-> ms, called |-> FALSE, request |-> <<>>, cost |-> 0]
        ELSE IF out.kind # "ok"
             THEN [messages |-> Abandoned(ms, start), called |-> TRUE,
                   request |-> compaction_messages(ms, start), cost |-> 0]
        ELSE IF out.text.n = 0
             THEN [messages |-> Abandoned(ms, start), called |-> TRUE,
                   request |-> compaction_messages(ms, start), cost |-> out.cost]
        ELSE LET compacted == Spliced(ms, start, out.text)
             IN  [messages |-> remove_orphaned_tool_messages(compacted),
                  called |-> TRUE, request |-> compaction_messages(ms, start),
                  cost |-> out.cost]

----------------------------------------------------------------------------
(* Context manager: compaction.py manage_context *)

\* variant: under the threshold the transcript is returned with its images
manage_contextTokensFirst(ms, out, force_compaction) ==
    LET imgs == IF count_total_images(ms) > IMAGE_PRUNE_TARGET
                THEN prune_old_images(ms, IMAGE_PRUNE_TARGET) ELSE ms
    IN  IF ~force_compaction /\ ~is_overflow(estimate_total_tokens(ms))
        THEN [messages |-> ms, called |-> FALSE, request |-> <<>>, cost |-> 0]
        ELSE LET pruned == prune_old_tool_outputs(imgs)
             IN  IF ~is_overflow(estimate_total_tokens(pruned)) /\ ~force_compaction
                 THEN [messages |-> pruned, called |-> FALSE, request |-> <<>>, cost |-> 0]
                 ELSE run_compaction(pruned, out)

manage_context(ms, out, force_compaction) ==
    LET imgs == IF count_total_images(ms) > IMAGE_PRUNE_TARGET
                THEN prune_old_images(ms, IMAGE_PRUNE_TARGET) ELSE ms
        total_tokens == estimate_total_tokens(imgs)
    IN  IF ~force_compaction /\ ~is_overflow(total_tokens)
        THEN [messages |-> imgs, called |-> FALSE, request |-> <<>>, cost |-> 0]
        ELSE LET pruned == prune_old_tool_outputs(imgs)
             IN  IF ~is_overflow(estimate_total_tokens(pruned)) /\ ~force_compaction
                 THEN [messages |-> pruned, called |-> FALSE, request |-> <<>>, cost |-> 0]
                 ELSE run_compaction(pruned, out)

----------------------------------------------------------------------------
(* Cache-breakpoint selector: loop.py *)

HasCache(c) == \E k \in 1..Len(c.parts) : c.parts[k].cache

IsMarkable(p) == p.type = "text" /\ p.text.n > 0

add_cache_control_to_message(m) ==
    IF m.content.list
    THEN IF HasCache(m.content) THEN m
         ELSE LET ks == {k \in 1..Len(m.content.parts) : IsMarkable(m.content.parts[k])}
              IN  IF ks = {} THEN m
                  ELSE LET last == CHOOSE k \in ks : \A j \in ks : j <= k
                       IN  [m EXCEPT !.content.parts[last].cache = TRUE]
    ELSE IF m.content.text.n = 0 THEN m
         ELSE [m EXCEPT !.content = ListContent(<<TextPart(m.content.text, TRUE)>>)]

\* variant: the last three messages that are not system messages are marked
IndicesToCacheThreeFinal(ms) ==
    LET sys == {i \in 1..Len(ms) : ms[i].role = "system"}
        non == {i \in 1..Len(ms) : ms[i].role # "system"}
    IN  {i \in sys : Cardinality({j \in sys : j < i}) < MAX_CACHED_SYSTEM}
        \cup {i \in non : Cardinality({j \in non : j > i}) < MAX_CACHED_FINAL + 1}

IndicesToCache(ms) ==
    LET sys == {i \in 1..Len(ms) : ms[i].role = "system"}
        non == {i \in 1..Len(ms) : ms[i].role # "system"}
    IN  {i \in sys : Cardinality({j \in sys : j < i}) < MAX_CACHED_SYSTEM}
        \cup {i \in non : Cardinality({j \in non : j > i}) < MAX_CACHED_FINAL}

apply_caching(ms, enabled) ==
    IF ~enabled \/ ms = <<>> THEN ms
    ELSE LET indices_to_cache == IndicesToCache(ms)
         IN  [i \in 1..Len(ms) |->
                 IF i \in indices_to_cache
                 THEN add_cache_control_to_message(ms[i]) ELSE ms[i]]

cache_enabled == TRUE

----------------------------------------------------------------------------
(* LLM client: client.py LiteLLMClient.chat *)

\* variant: the guard lets a call through at exactly the limit
CostLimitExceededStrict(client_cost) == client_cost > CostLimit

\* the cost guard at the head of chat()
CostLimitExceeded(client_cost) == client_cost >= CostLimit

Costs == {0, MaxCost}

\* outcomes of the nested summarization call
SummarizerOutcomes(client_cost) ==
    IF CostLimitExceeded(client_cost)
    THEN {[kind |-> "cost_limit", text |-> EmptyText, cost |-> 0]}
    ELSE {[kind |-> "error", text |-> EmptyText, cost |-> 0],
          [kind |-> "ok", text |-> EmptyText, cost |-> 0]}
         \cup {[kind |-> "ok", text |-> Txt("plain", SmallLen), cost |-> c] : c \in Costs}

\* error outcomes of the main call: LLMError(code, message) or another exception
\* bad_request: the error message contains "BadRequestError"
LLMErrors ==
    {[type |-> "LLMError", code |-> c, bad_request |-> b] :
        c \in {"authentication_error", "rate_limit", "api_error"}, b \in BOOLEAN}
    \cup {[type |-> "Exception", code |-> "none", bad_request |-> FALSE]}

----------------------------------------------------------------------------
(* Turn-control loop: loop.py run_agent_loop *)

InitialMessages ==
    <<SystemMsg(Txt("system_prompt", SYSTEM_PROMPT_LEN + EnvLen)),
      UserMsg(Txt("instruction", InstrLen)),
      UserMsg(Txt("initial_state", INITIAL_STATE_WRAP_LEN + EnvLen))>>

(* registry.py: the tool cache and the execution statistics *)

ToolNames == {"read_file", "list_dir"}

\* argument dicts as the caller built them: <<key, value>> pairs in the
\* caller's order; the last two are the same dict
ToolArguments == {<< <<1, 1>> >>, << <<1, 1>>, <<2, 1>> >>, << <<2, 1>>, <<1, 1>> >>}

\* json.dumps(arguments, sort_keys=True): the pairs in ascending key order
SortedItems(arguments) ==
    LET n == Len(arguments)
        rank(i) == Cardinality({j \in 1..n : arguments[j][1] < arguments[i][1]}) + 1
    IN  [r \in 1..n |-> arguments[CHOOSE i \in 1..n : rank(i) = r]]

\* the digest of "name:args_json"; distinct texts keep distinct digests
cache_key(name, arguments) == <<name, SortedItems(arguments)>>

CacheKeys == {cache_key(n, a) : n \in ToolNames, a \in ToolArguments}

\* None, where a ToolResult is expected
NoToolResult == [success |-> FALSE, output |-> -1]

\* what a tool hands back: ToolResult.ok(output) or ToolResult.fail(...)
ToolResults ==
    {[success |-> TRUE, output |-> o] : o \in {1, 2}}
    \cup {[success |-> FALSE, output |-> 0]}

\* no CachedResult under the key
NoEntry == [result |-> NoToolResult, cached_at |-> -1]

NoStore == [result |-> NoToolResult, cached_at |-> -1, cleared |-> FALSE]

\* variant: an entry exactly cache_ttl old still counts as valid
is_validInclusive(entry, ttl, t) == (t - entry.cached_at) <= ttl

\* CachedResult.is_valid at time t
is_valid(entry, ttl, t) == (t - entry.cached_at) < ttl

get_cached(c, key, cfg, t) ==
    IF c[key] # NoEntry /\ is_valid(c[key], cfg.cache_ttl, t)
    THEN c[key].result
    ELSE NoToolResult

evict_expired_cache(c, cfg, t) ==
    [k \in CacheKeys |->
        IF c[k] # NoEntry /\ ~is_valid(c[k], cfg.cache_ttl, t) THEN NoEntry ELSE c[k]]

CacheSize(c) == Cardinality({k \in CacheKeys : c[k] # NoEntry})

cache_result(c, key, result, cfg, t) ==
    LET c1 == [c EXCEPT ![key] = [result |-> result, cached_at |-> t]]
    IN  IF CacheSize(c1) > CacheLimit THEN evict_expired_cache(c1, cfg, t) ELSE c1

record_execution(st, success, cached) ==
    [total_executions |-> st.total_executions + 1,
     successful_executions |-> st.successful_executions + (IF success THEN 1 ELSE 0),
     failed_executions |-> st.failed_executions + (IF success THEN 0 ELSE 1),
     cache_hits |-> st.cache_hits + (IF cached THEN 1 ELSE 0)]

\* ExecutorConfig(), as far as the cache reads it
ExecutorConfig == [cache_enabled |-> TRUE, cache_ttl |-> CacheTtl]

\* ToolRegistry.__init__ with one of the given configurations
RegistryStart(configs) ==
    /\ config \in configs
    /\ cache = [k \in CacheKeys |-> NoEntry]
    /\ stats = [total_executions |-> 0, successful_executions |-> 0,
                failed_executions |-> 0, cache_hits |-> 0]
    /\ now = 0
    /\ workers = [w \in 1..MaxWorkers |->
                     [wpc |-> "idle", key |-> <<>>, result |-> NoToolResult]]
    /\ stored = [k \in CacheKeys |-> NoStore]

RegistryNew == RegistryStart({ExecutorConfig})

InitFnIdle ==
    /\ transcript = <<>>
    /\ output = <<>>
    /\ again = <<>>
    /\ compact_ids = {}
    /\ called = FALSE
    /\ forced = FALSE
    /\ recalled = FALSE
    /\ fpc = "idle"

InitBatchIdle ==
    /\ calls = <<>>
    /\ futures = <<>>
    /\ results = <<>>
    /\ collected = <<>>
    /\ returned = <<>>
    /\ bpc = "idle"

Init ==
    /\ RegistryNew
    /\ messages = InitialMessages
    /\ prev_messages = InitialMessages
    /\ cached_messages = <<>>
    /\ iteration = 0
    /\ attempt = 0
    /\ total_cost = 0
    /\ verification_phase = "none"
    /\ verification_result = EmptyText
    /\ llm_total_cost = 0
    /\ turn_failed = 0
    /\ turn_completed = 0
    /\ is_done = 0
    /\ pc = "loop"
    /\ exit_reason = "running"
    /\ good_snapshot = InitialMessages
    /\ tool_free = 0
    /\ sent = <<>>
    /\ context_messages = <<>>
    /\ InitBatchIdle
    /\ InitFnIdle

\* variant: the bound compared with <=, one iteration too many
LoopConditionInclusive(it) == it <= MaxIterations

\* while iteration < max_iterations
LoopCondition(it) == it < MaxIterations

\* variant: the context is marked done without the closing event
LeaveLoopNoEvent(reason) ==
    /\ turn_completed' = turn_completed
    /\ is_done' = is_done + 1
    /\ pc' = "done"
    /\ exit_reason' = reason

\* the code after the loop: emit turn.completed, ctx.done()
LeaveLoop(reason) ==
    /\ turn_completed' = turn_completed + 1
    /\ is_done' = is_done + 1
    /\ pc' = "done"
    /\ exit_reason' = reason

\* if len(context_messages) < len(messages): messages = context_messages
AdoptContext(ms, context) == IF Len(context) < Len(ms) THEN context ELSE ms

\* variant: the cached view is built from the loop's own transcript
CachedOfMessages(ms, context) == apply_caching(ms, cache_enabled)

\* cached_messages = _apply_caching(context_messages, enabled=cache_enabled)
CachedOfContext(ms, context) == apply_caching(context, cache_enabled)

\* top of an iteration: context management and caching
BeginIterationWith(out) ==
    /\ pc = "loop"
    /\ LoopCondition(iteration)
    /\ out \in SummarizerOutcomes(llm_total_cost)
    /\ LET managed == manage_context(messages, out, FALSE)
       IN  /\ messages' = AdoptContext(messages, managed.messages)
           /\ cached_messages' = CachedOfContext(messages, managed.messages)
           /\ llm_total_cost' = llm_total_cost + managed.cost
           /\ context_messages' = managed.messages
           /\ sent' = IF managed.called THEN managed.request ELSE sent
    /\ iteration' = iteration + 1
    /\ attempt' = 1
    /\ pc' = "attempt"
    /\ UNCHANGED <<prev_messages, total_cost, verification_phase,
                   verification_result, turn_failed, turn_completed, is_done,
                   exit_reason, good_snapshot, tool_free, batchVars, regVars, fnVars>>

BeginIteration ==
    \E out \in SummarizerOutcomes(llm_total_cost) : BeginIterationWith(out)

\* the loop condition fails
LoopExhausted ==
    /\ pc = "loop"
    /\ ~LoopCondition(iteration)
    /\ LeaveLoop("max_iterations")
    /\ UNCHANGED <<messages, prev_messages, cached_messages, iteration, attempt,
                   total_cost, verification_phase,
                   verification_result, llm_total_cost, turn_failed,
                   good_snapshot, tool_free, sent, context_messages,
                   batchVars, regVars, fnVars>>

\* llm.chat raises CostLimitExceeded: re-raised, turn.failed, ctx.done(), return
ChatCostLimit ==
    /\ pc = "attempt"
    /\ CostLimitExceeded(llm_total_cost)
    /\ turn_failed' = turn_failed + 1
    /\ is_done' = is_done + 1
    /\ pc' = "done"
    /\ exit_reason' = "cost_limit_error"
    /\ sent' = cached_messages
    /\ UNCHANGED <<messages, prev_messages, cached_messages, iteration, attempt,
                   total_cost, verification_phase,
                   verification_result, llm_total_cost, turn_completed,
                   good_snapshot, tool_free, context_messages,
                   batchVars, regVars, fnVars>>

\* codes that are re-raised at once
IsAuthError(e) == e.code \in {"authentication_error", "invalid_api_key"}

\* variant: a retry is still granted after the last attempt
MayRetryInclusive(a) == a <= MAX_RETRIES

\* if attempt < max_retries: sleep and retry, else raise
MayRetry(a) == a < MAX_RETRIES

\* variant: the transcript is restored but the cached view is not rebuilt
RollbackStaleCache(ms, prev, cached, enabled) ==
    [messages |-> prev, cached_messages |-> cached]

\* if "BadRequestError" in error_msg: roll back and rebuild the cached view
Rollback(ms, prev, cached, enabled) ==
    [messages |-> prev, cached_messages |-> apply_caching(prev, enabled)]

\* the outer handlers: emit turn.failed and continue
FailIteration ==
    /\ turn_failed' = turn_failed + 1
    /\ pc' = "loop"

\* llm.chat raises the error e: LLMError or another exception; the step is
\* the whole handler, here with the retry decision written before the rollback
ChatErrorWith(e) ==
    /\ pc = "attempt"
    /\ ~CostLimitExceeded(llm_total_cost)
    /\ UNCHANGED <<prev_messages, iteration, total_cost, verification_phase,
                   verification_result, llm_total_cost, turn_completed, is_done,
                   exit_reason, good_snapshot, tool_free, context_messages,
                   batchVars, regVars, fnVars>>
    /\ sent' = cached_messages
    /\ IF e.type = "LLMError" /\ IsAuthError(e)
       THEN /\ FailIteration
            /\ UNCHANGED <<messages, cached_messages, attempt>>
       ELSE /\ IF MayRetry(attempt)
               THEN /\ attempt' = attempt + 1
                    /\ UNCHANGED <<turn_failed, pc>>
               ELSE /\ FailIteration
                    /\ UNCHANGED attempt
            /\ IF e.type = "LLMError" /\ e.bad_request
               THEN LET r == Rollback(messages, prev_messages,
                                      cached_messages, cache_enabled)
                    IN  /\ messages' = r.messages
                        /\ cached_messages' = r.cached_messages
               ELSE UNCHANGED <<messages, cached_messages>>

ChatError == \E e \in LLMErrors : ChatErrorWith(e)

\* variant: the incompleteness phrase is never recognised
IsIncompleteNever(t) == FALSE

\* "task incomplete" in response_text.lower()
IsIncomplete(t) == t.k = "incomplete"

\* variant: the limit must be exceeded, not only reached
CostReachedStrict(cost) == cost > CostLimit

\* if total_cost >= cost_limit: break
CostReached(cost) == cost >= CostLimit

VerificationPrompt == UserMsg(Txt("verification_prompt", VERIFICATION_PROMPT_LEN + InstrLen))
ConfirmationPrompt(result) ==
    UserMsg(Txt("confirmation_prompt", VERIFICATION_CONFIRMATION_LEN + InstrLen + result.n))
ContinuePrompt == UserMsg(Txt("continue_prompt", CONTINUE_PROMPT_LEN))

\* variant: the first verification pass already completes the task
VerificationStepNoConfirmation(phase, text, result) ==
    IF phase = "confirmation"
    THEN IF IsIncomplete(text)
         THEN [phase |-> "none", result |-> result, complete |-> FALSE,
               append |-> <<AssistantMsg(text, <<>>), ContinuePrompt>>]
         ELSE [phase |-> phase, result |-> result, complete |-> TRUE,
               append |-> <<>>]
    ELSE IF phase = "first"
    THEN [phase |-> phase, result |-> text, complete |-> TRUE, append |-> <<>>]
    ELSE [phase |-> "first", result |-> result, complete |-> FALSE,
          append |-> <<AssistantMsg(text, <<>>), VerificationPrompt>>]

\* the verification workflow run on a response without tool calls
VerificationStep(phase, text, result) ==
    IF phase = "confirmation"
    THEN IF IsIncomplete(text)
         THEN [phase |-> "none", result |-> result, complete |-> FALSE,
               append |-> <<AssistantMsg(text, <<>>), ContinuePrompt>>]
         ELSE [phase |-> phase, result |-> result, complete |-> TRUE,
               append |-> <<>>]
    ELSE IF phase = "first"
    THEN [phase |-> "confirmation", result |-> text, complete |-> FALSE,
          append |-> <<AssistantMsg(text, <<>>), ConfirmationPrompt(text)>>]
    ELSE [phase |-> "first", result |-> result, complete |-> FALSE,
          append |-> <<AssistantMsg(text, <<>>), VerificationPrompt>>]

\* responses without tool calls: [text, cost]
NoToolResponses ==
    {[text |-> Txt("plain", SmallLen), cost |-> 0],
     [text |-> Txt("incomplete", SmallLen), cost |-> 0],
     [text |-> Txt("plain", SmallLen), cost |-> MaxCost],
     [text |-> Txt("incomplete", SmallLen), cost |-> MaxCost]}

\* prev_messages = copy.deepcopy(messages) after a successful call
Snapshot(ms) == ms

\* a successful llm.chat whose response r = [text, cost] carries no tool calls
RespondNoToolsWith(r) ==
    /\ pc = "attempt"
    /\ ~CostLimitExceeded(llm_total_cost)
    /\ sent' = cached_messages
    /\ LET step == VerificationStep(verification_phase, r.text, verification_result)
       IN  /\ total_cost' = total_cost + r.cost
           /\ llm_total_cost' = llm_total_cost + r.cost
           /\ IF CostReached(total_cost + r.cost)
              THEN /\ LeaveLoop("cost_limit")
                   /\ UNCHANGED <<messages, verification_phase, verification_result>>
              ELSE IF step.complete
              THEN /\ LeaveLoop("completed")
                   /\ UNCHANGED <<messages, verification_phase, verification_result>>
              ELSE /\ verification_phase' = step.phase
                   /\ verification_result' = step.result
                   /\ messages' = messages \o step.append
                   /\ pc' = "loop"
                   /\ UNCHANGED <<turn_completed, is_done, exit_reason>>
    /\ prev_messages' = Snapshot(messages)
    /\ good_snapshot' = messages
    /\ tool_free' = IF verification_phase = "none" THEN 1 ELSE tool_free + 1
    /\ UNCHANGED <<cached_messages, iteration, attempt, turn_failed, context_messages,
                   batchVars, regVars, fnVars>>

RespondNoTools == \E r \in NoToolResponses : RespondNoToolsWith(r)

\* results of one tool execution as the loop reads them:
\* success, success with a long output, success with an image to inject,
\* failure, invalid parameters
OkSmall == [kind |-> "ok", output |-> Txt("plain", SmallLen), image |-> FALSE]
OkBig == [kind |-> "ok", output |-> Txt("plain", BigLen), image |-> FALSE]
OkImage == [kind |-> "ok", output |-> Txt("plain", SmallLen), image |-> TRUE]
Failed == [kind |-> "fail", output |-> Txt("plain", SmallLen), image |-> FALSE]
InvalidParam == [kind |-> "invalid", output |-> Txt("plain", SmallLen), image |-> FALSE]

ToolOutcomes == {OkSmall, OkBig, OkImage, Failed, InvalidParam}

\* the results of the calls of one response, in call order
ToolOutcomeSeqs(n) ==
    IF n = 1 THEN {<<o>> : o \in ToolOutcomes}
    ELSE {<<OkBig, OkBig>>, <<InvalidParam, OkSmall>>, <<OkBig, InvalidParam>>,
          <<OkImage, Failed>>}

\* tool-call ids of one response: the calls of a response are numbered
IdSeqs(n) == {ids \in [1..n -> CallIds] : \A i \in 1..n : ids[i] = i}

InvalidNotice == UserMsg(Txt("invalid_notice", INVALID_NOTICE_LEN + NameLen))

\* for tool_result in tool_results: append it, and a notice when it is invalid
RECURSIVE ToolResultMessages(_, _, _)
ToolResultMessages(ids, outs, i) ==
    IF i > Len(ids) THEN <<>>
    ELSE <<ToolMsg(ids[i], outs[i].output)>>
         \o (IF outs[i].kind = "invalid" THEN <<InvalidNotice>> ELSE <<>>)
         \o ToolResultMessages(ids, outs, i + 1)

\* variant: the assistant message is appended without its tool_calls
ToolTurnMessagesNoCalls(text, ids, outs) ==
    <<AssistantMsg(text, <<>>)>> \o ToolResultMessages(ids, outs, 1)

\* the assistant message and what follows it in the transcript
ToolTurnMessages(text, ids, outs) ==
    <<AssistantMsg(text, [i \in 1..Len(ids) |-> ToolCall(ids[i])])>>
    \o ToolResultMessages(ids, outs, 1)

RECURSIVE ImageParts(_, _, _)
ImageParts(outs, i, left) ==
    IF i > Len(outs) \/ left = 0 THEN <<>>
    ELSE IF outs[i].image
         THEN <<TextPart(Txt("caption", IMAGE_CAPTION_LEN + NameLen), FALSE),
                ImagePart("image_url")>>
              \o ImageParts(outs, i + 1, left - 1)
         ELSE ImageParts(outs, i + 1, left)

\* variant: the images are appended and nothing is pruned at once
AppendImagesNoPrune(ms, outs) ==
    LET parts == ImageParts(outs, 1, MAX_IMAGES_PER_TURN)
    IN  IF parts = <<>> THEN ms
        ELSE Append(ms, Msg("user", ListContent(parts), <<>>, NoId))

\* pending images, at most MAX_IMAGES_PER_TURN, as one trailing user message,
\* then the immediate image prune
AppendImages(ms, outs) ==
    LET parts == ImageParts(outs, 1, MAX_IMAGES_PER_TURN)
    IN  IF parts = <<>> THEN ms
        ELSE LET with == Append(ms, Msg("user", ListContent(parts), <<>>, NoId))
             IN  IF count_total_images(with) > MAX_IMAGES_PER_REQUEST - IMMEDIATE_PRUNE_MARGIN
                 THEN prune_old_images(with, IMAGE_PRUNE_TARGET)
                 ELSE with

\* the tool turns a transcript may already hold when another is added
EarlierToolTurns == {0, 1}

ToolTurns(ms) ==
    Cardinality({i \in 1..Len(ms) : ms[i].role = "assistant" /\ ms[i].tool_calls # <<>>})

\* responses with tool calls: [text, ids, outs, cost]
ToolResponses ==
    UNION {{[text |-> Txt("plain", SmallLen), ids |-> ids, outs |-> outs, cost |-> c] :
               ids \in IdSeqs(n), outs \in ToolOutcomeSeqs(n),
               c \in (IF n = 1 THEN Costs ELSE {0})} : n \in CallCounts}

\* variant: a tool turn starts the verification over
PhaseAfterToolsReset(phase) == "none"

\* the tool branch holds no assignment to verification_phase
PhaseAfterTools(phase) == phase

\* a successful llm.chat whose response r = [text, ids, outs, cost] carries
\* tool calls; outs are the results tools.execute returns for them
RespondWithToolsWith(r) ==
    /\ pc = "attempt"
    /\ ~CostLimitExceeded(llm_total_cost)
    /\ ToolTurns(messages) \in EarlierToolTurns
    /\ sent' = cached_messages
    /\ LET turn == messages \o ToolTurnMessages(r.text, r.ids, r.outs)
       IN  /\ total_cost' = total_cost + r.cost
           /\ llm_total_cost' = llm_total_cost + r.cost
           /\ IF CostReached(total_cost + r.cost)
              THEN /\ messages' = turn
                   /\ LeaveLoop("cost_limit")
              ELSE /\ messages' = AppendImages(turn, r.outs)
                   /\ pc' = "loop"
                   /\ UNCHANGED <<turn_completed, is_done, exit_reason>>
    /\ prev_messages' = Snapshot(messages)
    /\ good_snapshot' = messages
    /\ verification_phase' = PhaseAfterTools(verification_phase)
    /\ UNCHANGED <<cached_messages, iteration, attempt,
                   verification_result, turn_failed,
                   tool_free, context_messages,
                   batchVars, regVars, fnVars>>

RespondWithTools == \E r \in ToolResponses : RespondWithToolsWith(r)

Next ==
    \/ BeginIteration
    \/ LoopExhausted
    \/ ChatCostLimit
    \/ ChatError
    \/ RespondNoTools
    \/ RespondWithTools

Spec == Init /\ [][Next]_vars

----------------------------------------------------------------------------
(* Batch execution: registry.py ToolRegistry.execute_batch *)

CallKeys == {1, 2}      \* distinct (tool name, arguments) pairs

BatchInputs == UNION {[1..n -> CallKeys] : n \in 0..MaxBatch}

\* what execute() may hand back for a call, or an exception out of the future
ExecuteOutcomes(call) ==
    {[kind |-> "result", call |-> call, success |-> ok] : ok \in BOOLEAN}
    \cup {[kind |-> "raised", call |-> call, success |-> FALSE]}

NoResult == [kind |-> "none", call |-> 0, success |-> FALSE]

\* ToolResult.fail("Batch execution failed: ...") for the call of that future
BatchFailure(call) == [kind |-> "result", call |-> call, success |-> FALSE]

\* variant: results are stored in completion order, in the first free slot
CollectIntoFirstFree(res, index, outcome) ==
    LET free == CHOOSE i \in 1..Len(res) :
                    res[i] = NoResult /\ \A j \in 1..(i - 1) : res[j] # NoResult
    IN  [res EXCEPT ![free] = IF outcome.kind = "raised"
                              THEN BatchFailure(outcome.call) ELSE outcome]

\* results[index] = future.result(), or the failure when it raised
CollectInto(res, index, outcome) ==
    [res EXCEPT ![index] = IF outcome.kind = "raised"
                           THEN BatchFailure(outcome.call) ELSE outcome]

\* r if r is not None else ToolResult.fail("No result")
FillMissing(res) ==
    [i \in 1..Len(res) |-> IF res[i] = NoResult
                           THEN [kind |-> "result", call |-> 0, success |-> FALSE]
                           ELSE res[i]]

LoopIdle ==
    /\ messages = InitialMessages
    /\ prev_messages = InitialMessages
    /\ cached_messages = <<>>
    /\ iteration = 0
    /\ attempt = 0
    /\ total_cost = 0
    /\ verification_phase = "none"
    /\ verification_result = EmptyText
    /\ llm_total_cost = 0
    /\ turn_failed = 0
    /\ turn_completed = 0
    /\ is_done = 0
    /\ pc = "idle"
    /\ exit_reason = "running"
    /\ good_snapshot = InitialMessages
    /\ tool_free = 0
    /\ sent = <<>>
    /\ context_messages = <<>>

InitBatch ==
    /\ LoopIdle
    /\ RegistryNew
    /\ InitFnIdle
    /\ calls \in BatchInputs
    /\ futures = [i \in 1..Len(calls) |-> [state |-> "new", outcome |-> NoResult]]
    /\ results = <<>>
    /\ collected = <<>>
    /\ returned = <<>>
    /\ bpc = "entry"

\* if not calls: return []
BatchEmpty ==
    /\ bpc = "entry"
    /\ calls = <<>>
    /\ returned' = <<>>
    /\ bpc' = "returned"
    /\ UNCHANGED <<loopVars, regVars, fnVars, calls, futures, results, collected>>

\* if len(calls) == 1: return [self.execute(ctx, name, args)]
BatchSingle ==
    /\ bpc = "entry"
    /\ Len(calls) = 1
    /\ \E o \in ExecuteOutcomes(calls[1]) :
          /\ o.kind = "result"
          /\ returned' = <<o>>
    /\ bpc' = "returned"
    /\ UNCHANGED <<loopVars, regVars, fnVars, calls, futures, results, collected>>

\* results = [None] * len(calls); the with block is entered
BatchStart ==
    /\ bpc = "entry"
    /\ Len(calls) > 1
    /\ results' = [i \in 1..Len(calls) |-> NoResult]
    /\ bpc' = "submit"
    /\ UNCHANGED <<loopVars, regVars, fnVars, calls, futures, collected, returned>>

Submitted == {i \in 1..Len(futures) : futures[i].state # "new"}
Running == {i \in 1..Len(futures) : futures[i].state = "running"}

\* executor.submit(self.execute, ctx, name, args) for the next call
Submit ==
    /\ bpc = "submit"
    /\ \E i \in 1..Len(calls) :
          /\ futures[i].state = "new"
          /\ \A j \in 1..(i - 1) : futures[j].state # "new"
          /\ futures' = [futures EXCEPT ![i].state = "queued"]
          /\ bpc' = IF i = Len(calls) THEN "collect" ELSE "submit"
    /\ UNCHANGED <<loopVars, regVars, fnVars, calls, results, collected, returned>>

\* a free worker of the pool takes the oldest queued call
WorkerStart ==
    /\ bpc \in {"submit", "collect"}
    /\ Cardinality(Running) < MAX_CONCURRENT
    /\ \E i \in 1..Len(futures) :
          /\ futures[i].state = "queued"
          /\ \A j \in 1..(i - 1) : futures[j].state # "queued"
          /\ futures' = [futures EXCEPT ![i].state = "running"]
    /\ UNCHANGED <<loopVars, regVars, fnVars, calls, results, collected, returned, bpc>>

\* a worker's execute() returns or raises
WorkerFinish ==
    /\ bpc \in {"submit", "collect"}
    /\ \E i \in Running :
          \E o \in ExecuteOutcomes(calls[i]) :
             futures' = [futures EXCEPT ![i] = [state |-> "done", outcome |-> o]]
    /\ UNCHANGED <<loopVars, regVars, fnVars, calls, results, collected, returned, bpc>>

\* for future in as_completed(future_to_index): results[index] = ...
Collect ==
    /\ bpc = "collect"
    /\ \E i \in 1..Len(futures) :
          /\ futures[i].state = "done"
          /\ \A k \in 1..Len(collected) : collected[k] # i
          /\ results' = CollectInto(results, i, futures[i].outcome)
          /\ collected' = Append(collected, i)
    /\ UNCHANGED <<loopVars, regVars, fnVars, calls, futures, returned, bpc>>

\* as_completed is exhausted, the with block joins the pool, the list is returned
BatchReturn ==
    /\ bpc = "collect"
    /\ Len(collected) = Len(calls)
    /\ returned' = FillMissing(results)
    /\ bpc' = "returned"
    /\ UNCHANGED <<loopVars, regVars, fnVars, calls, futures, results, collected>>

NextBatch ==
    \/ BatchEmpty
    \/ BatchSingle
    \/ BatchStart
    \/ Submit
    \/ WorkerStart
    \/ WorkerFinish
    \/ Collect
    \/ BatchReturn

SpecBatch == InitBatch /\ [][NextBatch]_vars

(* Single calls: registry.py ToolRegistry.execute, by any number of threads *)

\* calls that have entered execute and are not yet counted
InFlight == {w \in 1..MaxWorkers : workers[w].wpc \in {"hit", "running", "ran"}}

\* execute(ctx, name, arguments) up to the cache lookup
ExecuteCall(w, name, arguments) ==
    /\ workers[w].wpc = "idle"
    /\ stats.total_executions + Cardinality(InFlight) < MaxExecutions
    /\ LET key == cache_key(name, arguments)
           cached == IF config.cache_enabled
                     THEN get_cached(cache, key, config, now)
                     ELSE NoToolResult
       IN  workers' = [workers EXCEPT ![w] =
                          [wpc |-> IF cached # NoToolResult THEN "hit" ELSE "running",
                           key |-> key, result |-> cached]]
    /\ UNCHANGED <<loopVars, batchVars, fnVars, config, cache, stats, now, stored>>

Execute == \E w \in 1..MaxWorkers, name \in ToolNames, arguments \in ToolArguments :
               ExecuteCall(w, name, arguments)

\* the lookup found a result: it is counted and returned
ExecuteHit ==
    \E w \in 1..MaxWorkers :
       /\ workers[w].wpc = "hit"
       /\ stats' = record_execution(stats, TRUE, TRUE)
       /\ workers' = [workers EXCEPT ![w].wpc = "idle"]
       /\ UNCHANGED <<loopVars, batchVars, fnVars, config, cache, now, stored>>

\* the tool runs and returns a result, or raises and the failure is built
ToolRun ==
    \E w \in 1..MaxWorkers, result \in ToolResults :
       /\ workers[w].wpc = "running"
       /\ workers' = [workers EXCEPT ![w].wpc = "ran", ![w].result = result]
       /\ UNCHANGED <<loopVars, batchVars, fnVars, config, cache, stats, now, stored>>

\* self._record_execution(name, duration_ms, success=result.success, cached=False)
ExecuteRecord ==
    \E w \in 1..MaxWorkers :
       /\ workers[w].wpc = "ran"
       /\ stats' = record_execution(stats, workers[w].result.success, FALSE)
       /\ workers' = [workers EXCEPT ![w].wpc = "recorded"]
       /\ UNCHANGED <<loopVars, batchVars, fnVars, config, cache, now, stored>>

\* a successful result is stored when the cache is enabled; the result is returned
ExecuteStore ==
    \E w \in 1..MaxWorkers :
       /\ workers[w].wpc = "recorded"
       /\ IF config.cache_enabled /\ workers[w].result.success
          THEN /\ cache' = cache_result(cache, workers[w].key, workers[w].result,
                                        config, now)
               /\ stored' = [stored EXCEPT ![workers[w].key] =
                                 [result |-> workers[w].result, cached_at |-> now,
                                  cleared |-> FALSE]]
          ELSE UNCHANGED <<cache, stored>>
       /\ workers' = [workers EXCEPT ![w].wpc = "idle"]
       /\ UNCHANGED <<loopVars, batchVars, fnVars, config, stats, now>>

\* ToolRegistry.clear_cache
clear_cache ==
    /\ cache' = [k \in CacheKeys |-> NoEntry]
    /\ stored' = [k \in CacheKeys |->
                     IF stored[k] = NoStore THEN NoStore
                     ELSE [stored[k] EXCEPT !.cleared = TRUE]]
    /\ UNCHANGED <<loopVars, batchVars, fnVars, config, stats, now, workers>>

\* time passes
Tick ==
    /\ now < MaxTime
    /\ now' = now + 1
    /\ UNCHANGED <<loopVars, batchVars, fnVars, config, cache, stats, workers, stored>>

InitRegistry ==
    /\ LoopIdle
    /\ InitBatchIdle
    /\ InitFnIdle
    /\ RegistryStart({[ExecutorConfig EXCEPT !.cache_enabled = e] : e \in BOOLEAN})

NextRegistry ==
    \/ Execute
    \/ ExecuteHit
    \/ ToolRun
    \/ ExecuteRecord
    \/ ExecuteStore
    \/ clear_cache
    \/ Tick

SpecRegistry == InitRegistry /\ [][NextRegistry]_vars

\* the loop and the batch executor, each from its own entry point
InitTools == Init \/ InitBatch

NextTools == Next \/ NextBatch

SpecTools == InitTools /\ [][NextTools]_vars

-----------------------------------------------------------------------------
(* The context-manager functions applied to transcripts of their own *)

SeqsUpTo(S, n) == UNION {[1..k -> S] : k \in 0..n}

FnStart(inputs) ==
    /\ LoopIdle
    /\ RegistryNew
    /\ InitBatchIdle
    /\ transcript \in inputs
    /\ output = <<>>
    /\ again = <<>>
    /\ compact_ids = {}
    /\ called = FALSE
    /\ forced = FALSE
    /\ recalled = FALSE
    /\ fpc = "start"

SmallText == Txt("plain", SmallLen)

\* messages _remove_orphaned_tool_messages may meet: tool-call ids 1 and 2,
\* the empty id 0 (FunctionCall.from_openai defaults a missing id to "") and
\* an absent tool_call_id; contents that are text, empty or the prune marker
RepairMessages ==
    {UserMsg(SmallText), AssistantMsg(SmallText, <<>>),
     AssistantMsg(SmallText, <<ToolCall(1)>>),
     AssistantMsg(SmallText, <<ToolCall(1), ToolCall(2)>>),
     AssistantMsg(SmallText, <<ToolCall(0)>>)}
    \cup {ToolMsg(id, t) : id \in {1, 2, 0, NoId},
                           t \in {SmallText, EmptyText, PRUNE_MARKER}}

InitRepair == FnStart(SeqsUpTo(RepairMessages, MaxRepairLen))

RepairApply ==
    /\ fpc = "start"
    /\ output' = remove_orphaned_tool_messages(transcript)
    /\ fpc' = "applied"
    /\ UNCHANGED <<loopVars, batchVars, regVars, transcript, forced, recalled, again, compact_ids, called>>

RepairReapply ==
    /\ fpc = "applied"
    /\ again' = remove_orphaned_tool_messages(output)
    /\ fpc' = "reapplied"
    /\ UNCHANGED <<loopVars, batchVars, regVars, transcript, forced, recalled, output, compact_ids, called>>

NextRepair == RepairApply \/ RepairReapply

SpecRepair == InitRepair /\ [][NextRepair]_vars

BigText == Txt("plain", BigLen)

\* what follows the protected messages in a transcript of the loop: user
\* messages, assistant messages with and without calls, tool results
CompactMessages ==
    {UserMsg(SmallText), UserMsg(BigText), AssistantMsg(SmallText, <<>>),
     AssistantMsg(SmallText, <<ToolCall(1), ToolCall(2)>>),
     ToolMsg(1, BigText), ToolMsg(2, BigText)}

\* the loop's transcripts begin with the system prompt and the instruction
ProtectedMessages == SubSeq(InitialMessages, 1, PROTECTED_MESSAGE_COUNT)

CompactInputs ==
    {ProtectedMessages \o t : t \in SeqsUpTo(CompactMessages, MaxCompactLen)}

\* the summarization call with the cost limit not reached and reached
CompactOutcomes == SummarizerOutcomes(0) \cup SummarizerOutcomes(CostLimit)

InitCompact == FnStart(CompactInputs)

CompactApplyWith(out) ==
    /\ fpc = "start"
    /\ LET r == run_compaction(transcript, out)
       IN  /\ output' = r.messages
           /\ called' = r.called
    /\ compact_ids' = find_messages_to_compact(transcript, DefaultTargetTokens)
    /\ fpc' = "applied"
    /\ UNCHANGED <<loopVars, batchVars, regVars, transcript, forced, recalled, again>>

CompactApply == \E out \in CompactOutcomes : CompactApplyWith(out)

NextCompact == CompactApply

SpecCompact == InitCompact /\ [][NextCompact]_vars

\* messages of a transcript handed to the pruner: user turns, assistant
\* messages, and tool outputs that are long, of the protected size, of the
\* minimum recovery, short or already pruned
PruneMessages ==
    {UserMsg(SmallText), AssistantMsg(SmallText, <<ToolCall(1)>>),
     ToolMsg(1, BigText), ToolMsg(1, Txt("plain", MidLen)),
     ToolMsg(1, Txt("plain", MinLen)),
     ToolMsg(1, SmallText), ToolMsg(1, PRUNE_MARKER)}

InitPrune == FnStart(SeqsUpTo(PruneMessages, MaxPruneLen))

PruneApply ==
    /\ fpc = "start"
    /\ output' = prune_old_tool_outputs(transcript)
    /\ fpc' = "applied"
    /\ UNCHANGED <<loopVars, batchVars, regVars, transcript, forced, recalled, again, compact_ids, called>>

PruneReapply ==
    /\ fpc = "applied"
    /\ again' = prune_old_tool_outputs(output)
    /\ fpc' = "reapplied"
    /\ UNCHANGED <<loopVars, batchVars, regVars, transcript, forced, recalled, output, compact_ids, called>>

NextPrune == PruneApply \/ PruneReapply

SpecPrune == InitPrune /\ [][NextPrune]_vars

\* a user message with a caption and k image parts of one type
ImageMsg(k, ty) ==
    Msg("user",
        ListContent(<<TextPart(Txt("caption", IMAGE_CAPTION_LEN + NameLen), FALSE)>>
                    \o [j \in 1..k |-> ImagePart(ty)]),
        <<>>, NoId)

\* images per message: few, enough to pass the soft target, and enough for
\* two messages to pass the hard ceiling
ImageCounts == {1, 6, 48, 60}

ImageMessages ==
    {ImageMsg(k, "image_url") : k \in ImageCounts}
    \cup {ImageMsg(6, "image"), UserMsg(SmallText), AssistantMsg(SmallText, <<>>)}

InitImages == FnStart(SeqsUpTo(ImageMessages, MaxImageLen))

ImagesApply ==
    /\ fpc = "start"
    /\ output' = prune_old_images(transcript, IMAGE_PRUNE_TARGET)
    /\ fpc' = "applied"
    /\ UNCHANGED <<loopVars, batchVars, regVars, transcript, forced, recalled, again, compact_ids, called>>

NextImages == ImagesApply

SpecImages == InitImages /\ [][NextImages]_vars

\* messages _apply_caching may meet: system messages, texts, an empty string,
\* and multipart contents whose text part is or is not empty
CacheMessages ==
    {SystemMsg(SmallText), UserMsg(SmallText), UserMsg(EmptyText),
     AssistantMsg(SmallText, <<>>),
     Msg("user", ListContent(<<TextPart(SmallText, FALSE), ImagePart("image_url")>>),
         <<>>, NoId),
     Msg("user", ListContent(<<TextPart(EmptyText, FALSE), ImagePart("image_url")>>),
         <<>>, NoId)}

InitCache == FnStart(SeqsUpTo(CacheMessages, MaxCacheLen))

CacheApply ==
    /\ fpc = "start"
    /\ output' = apply_caching(transcript, cache_enabled)
    /\ fpc' = "applied"
    /\ UNCHANGED <<loopVars, batchVars, regVars, transcript, forced, recalled, again, compact_ids, called>>

CacheReapply ==
    /\ fpc = "applied"
    /\ again' = apply_caching(output, cache_enabled)
    /\ fpc' = "reapplied"
    /\ UNCHANGED <<loopVars, batchVars, regVars, transcript, forced, recalled, output, compact_ids, called>>

\* what follows the protected messages when manage_context is called: user
\* messages short and long, assistant messages with and without a call, a
\* long tool output, and a user message carrying images
ManageMessages ==
    {UserMsg(SmallText), UserMsg(BigText), AssistantMsg(SmallText, <<>>),
     AssistantMsg(SmallText, <<ToolCall(1)>>), ToolMsg(1, BigText),
     ImageMsg(6, "image_url")}

InitManage ==
    /\ LoopIdle
    /\ RegistryNew
    /\ InitBatchIdle
    /\ transcript \in {ProtectedMessages \o t :
                           t \in SeqsUpTo(ManageMessages, MaxManageLen)}
    /\ forced \in BOOLEAN
    /\ output = <<>>
    /\ again = <<>>
    /\ compact_ids = {}
    /\ called = FALSE
    /\ recalled = FALSE
    /\ fpc = "start"

ManageApplyWith(out) ==
    /\ fpc = "start"
    /\ LET r == manage_context(transcript, out, forced)
       IN  /\ output' = r.messages
           /\ called' = r.called
    /\ fpc' = "applied"
    /\ UNCHANGED <<loopVars, batchVars, regVars, transcript, forced, recalled,
                   again, compact_ids>>

ManageApply == \E out \in CompactOutcomes : ManageApplyWith(out)

\* the next call, without the flag, on what the call returned
ManageReapply ==
    /\ fpc = "applied"
    /\ \E out \in CompactOutcomes :
          LET r == manage_context(output, out, FALSE)
          IN  /\ again' = r.messages
              /\ recalled' = r.called
    /\ fpc' = "reapplied"
    /\ UNCHANGED <<loopVars, batchVars, regVars, transcript, forced, output,
                   compact_ids, called>>

NextManage == ManageApply \/ ManageReapply

SpecManage == InitManage /\ [][NextManage]_vars

\* lengths of the texts handed to the estimator: empty, below and at one
\* token, and several tokens
TextLens == {0, 3, 4, SmallLen}

\* the messages the estimator starts from: strings, an assistant message,
\* and a multipart content still without parts
EstimateMessages ==
    {UserMsg(EmptyText), UserMsg(Txt("plain", 3)),
     AssistantMsg(Txt("plain", 3), <<>>),
     Msg("user", ListContent(<<>>), <<>>, NoId)}

\* estimate_message_tokens of every message of a transcript
EstimatesOf(ms) == [i \in 1..Len(ms) |-> estimate_message_tokens(ms[i])]

InitEstimate ==
    /\ LoopIdle
    /\ RegistryNew
    /\ InitBatchIdle
    /\ transcript \in SeqsUpTo(EstimateMessages, MaxEstimateLen)
    /\ output = EstimatesOf(transcript)
    /\ again = <<>>
    /\ compact_ids = {}
    /\ called = FALSE
    /\ forced = FALSE
    /\ recalled = FALSE
    /\ fpc = "estimated"

\* the transcript becomes t and is estimated again
Reestimate(t) ==
    /\ fpc = "estimated"
    /\ transcript' = t
    /\ output' = EstimatesOf(t)
    /\ UNCHANGED <<loopVars, batchVars, regVars, again, compact_ids, called, forced,
                   recalled, fpc>>

AppendTextPart ==
    \E i \in 1..Len(transcript), n \in TextLens \ {0} :
       /\ transcript[i].content.list
       /\ Len(transcript[i].content.parts) < MaxParts
       /\ Reestimate([transcript EXCEPT ![i].content.parts =
                         Append(@, TextPart(Txt("plain", n), FALSE))])

AppendImagePart ==
    \E i \in 1..Len(transcript), ty \in {"image_url", "image"} :
       /\ transcript[i].content.list
       /\ Len(transcript[i].content.parts) < MaxParts
       /\ Reestimate([transcript EXCEPT ![i].content.parts =
                         Append(@, ImagePart(ty))])

LengthenText ==
    \E i \in 1..Len(transcript), n \in TextLens :
       /\ ~transcript[i].content.list
       /\ n > transcript[i].content.text.n
       /\ Reestimate([transcript EXCEPT ![i].content.text.n = n])

LengthenTextPart ==
    \E i \in 1..Len(transcript), n \in TextLens :
       \E k \in 1..Len(transcript[i].content.parts) :
          /\ transcript[i].content.parts[k].type = "text"
          /\ n > transcript[i].content.parts[k].text.n
          /\ Reestimate([transcript EXCEPT ![i].content.parts[k].text.n = n])

AddToolCall ==
    \E i \in 1..Len(transcript) :
       /\ transcript[i].role = "assistant"
       /\ Len(transcript[i].tool_calls) < MaxParts
       /\ Reestimate([transcript EXCEPT ![i].tool_calls = Append(@, ToolCall(1))])

AppendMessage ==
    /\ Len(transcript) < MaxEstimateLen
    /\ \E m \in EstimateMessages : Reestimate(Append(transcript, m))

NextEstimate ==
    \/ AppendTextPart
    \/ AppendImagePart
    \/ LengthenText
    \/ LengthenTextPart
    \/ AddToolCall
    \/ AppendMessage

SpecEstimate == InitEstimate /\ [][NextEstimate]_vars

\* variant: the transform writes its result into the caller's list
InputAfterCallInPlace(ms, result) == result

\* the caller's list after a transform returned result: every transform
\* appends to a list of its own and builds {**msg, ...} for what it changes
InputAfterCall(ms, result) == ms

InitPure ==
    FnStart({ProtectedMessages \o t : t \in SeqsUpTo(ManageMessages, MaxPureLen)})

\* a transform returned result
Returned(result) ==
    /\ fpc = "start"
    /\ output' = result
    /\ transcript' = InputAfterCall(transcript, result)
    /\ fpc' = "applied"
    /\ UNCHANGED <<loopVars, batchVars, regVars, again, compact_ids, called, forced,
                   recalled>>

PurePrune == Returned(prune_old_tool_outputs(transcript))

PureImages == Returned(prune_old_images(transcript, IMAGE_PRUNE_TARGET))

PureRepair == Returned(remove_orphaned_tool_messages(transcript))

PureCompact ==
    \E out \in CompactOutcomes : Returned(run_compaction(transcript, out).messages)

PureManage ==
    \E out \in CompactOutcomes, f \in BOOLEAN :
       Returned(manage_context(transcript, out, f).messages)

PureCache == Returned(apply_caching(transcript, cache_enabled))

NextPure ==
    \/ PurePrune
    \/ PureImages
    \/ PureRepair
    \/ PureCompact
    \/ PureManage
    \/ PureCache

SpecPure == InitPure /\ [][NextPure]_vars

\* a response with n tool calls that all return an image, as the loop
\* appends it: assistant message, tool messages, then the images
ImageTurn(ms, n) ==
    LET ids == [i \in 1..n |-> 1]
        outs == [i \in 1..n |-> OkImage]
    IN  AppendImages(ms \o ToolTurnMessages(SmallText, ids, outs), outs)

\* what one turn of MAX_IMAGES_PER_TURN images appends
ImageTurnBlock == SubSeq(ImageTurn(<<>>, MAX_IMAGES_PER_TURN), 1, MAX_IMAGES_PER_TURN + 2)

\* the loop's transcript after j such turns: the blocks one after the other,
\* pruned at once by the turn that passed the margin
PriorTranscript(j) ==
    LET n == Len(ImageTurnBlock)
        raw == InitialMessages \o [i \in 1..(j * n) |-> ImageTurnBlock[((i - 1) % n) + 1]]
    IN  IF j * MAX_IMAGES_PER_TURN > MAX_IMAGES_PER_REQUEST - IMMEDIATE_PRUNE_MARGIN
        THEN prune_old_images(raw, IMAGE_PRUNE_TARGET)
        ELSE raw

\* images one response may return: one, the cap, and more than the cap
ImageTurnCounts == {1, MAX_IMAGES_PER_TURN, MAX_IMAGES_PER_TURN + 1}

InitImageTurns ==
    FnStart({PriorTranscript(j) : j \in (MaxPriorTurns - MaxImageTurns)..MaxPriorTurns})

\* top of an iteration: the managed, cached view goes to llm.chat
ImageSend ==
    /\ fpc \in {"start", "turned"}
    /\ \E out \in CompactOutcomes :
          LET managed == manage_context(transcript, out, FALSE)
          IN  /\ output' = apply_caching(managed.messages, cache_enabled)
              /\ transcript' = AdoptContext(transcript, managed.messages)
    /\ fpc' = "sent"
    /\ UNCHANGED <<loopVars, batchVars, regVars, again, compact_ids, called, forced,
                   recalled>>

\* the response carried tool calls whose results hold images
ImageTurnStep ==
    /\ fpc = "sent"
    /\ ToolTurns(transcript) < MaxPriorTurns + MaxImageTurns
    /\ \E n \in ImageTurnCounts : transcript' = ImageTurn(transcript, n)
    /\ fpc' = "turned"
    /\ UNCHANGED <<loopVars, batchVars, regVars, output, again, compact_ids, called,
                   forced, recalled>>

NextImageTurns == ImageSend \/ ImageTurnStep

SpecImageTurns == InitImageTurns /\ [][NextImageTurns]_vars

\* messages the eviction steps of manage_context may meet: turns, tool
\* outputs above the protected size and short ones, analyzed and fresh images
\* of both part types
EvictMessages ==
    {UserMsg(SmallText), AssistantMsg(SmallText, <<>>), ToolMsg(1, BigText),
     ToolMsg(1, SmallText), ImageMsg(6, "image_url"), ImageMsg(6, "image")}

InitEvict == FnStart(SeqsUpTo(EvictMessages, MaxEvictLen))

\* manage_context, first step: messages = prune_old_images(messages)
EvictImages ==
    /\ fpc = "start"
    /\ output' = prune_old_images(transcript, IMAGE_PRUNE_TARGET)
    /\ fpc' = "evicted"
    /\ UNCHANGED <<loopVars, batchVars, regVars, transcript, forced, recalled, again,
                   compact_ids, called>>

\* manage_context, on overflow: pruned = prune_old_tool_outputs(messages)
EvictPrune ==
    /\ fpc = "start"
    /\ output' = prune_old_tool_outputs(transcript)
    /\ fpc' = "pruned"
    /\ UNCHANGED <<loopVars, batchVars, regVars, transcript, forced, recalled, again,
                   compact_ids, called>>

NextEvict == EvictImages \/ EvictPrune

SpecEvict == InitEvict /\ [][NextEvict]_vars

\* the selector on transcripts of its own, and in the runs of the loop
InitSelector == Init \/ InitCache

NextSelector == Next \/ CacheApply \/ CacheReapply

SpecSelector == InitSelector /\ [][NextSelector]_vars

----------------------------------------------------------------------------
(* Properties of the turn-control loop *)

\* C1: every run of the loop terminates after at most max_iterations
\* iterations (every step strictly increases a bounded measure of iteration,
\* attempt and position, and no step is taken once the loop is left),
\* and it ends only by explicit completion, by accumulated cost >= the cost
\* limit (after a successful response or by the transport's cost-limit error),
\* or by the iteration counter reaching max_iterations.
C1_LoopTerminates ==
    /\ [](/\ iteration <= MaxIterations
          /\ pc \in {"loop", "attempt", "done"}
          /\ pc = "done" =>
                \/ exit_reason = "completed" /\ total_cost < CostLimit
                \/ exit_reason = "cost_limit" /\ total_cost >= CostLimit
                \/ exit_reason = "cost_limit_error" /\ llm_total_cost >= CostLimit
                \/ /\ exit_reason = "max_iterations"
                   /\ iteration = MaxIterations
                   /\ total_cost < CostLimit)
    /\ [][LET width == MAX_RETRIES + 2
              rank(p, it, a) == IF p = "done" THEN (it + 1) * width
                                ELSE IF p = "loop" THEN it * width + MAX_RETRIES + 1
                                ELSE it * width + a
          IN  /\ pc # "done"
              /\ rank(pc', iteration', attempt') > rank(pc, iteration, attempt)
              /\ rank(pc', iteration', attempt') <= (MaxIterations + 1) * width]_vars

\* the loop ran out of iterations after failed and successful iterations
C1_Witness ==
    /\ pc = "done"
    /\ exit_reason = "max_iterations"
    /\ iteration = MaxIterations
    /\ turn_failed > 0
    /\ Len(messages) > Len(InitialMessages)

\* C2: completion is declared only on a response without tool calls, received
\* in phase AWAITING_CONFIRMATION, whose text lacks the incompleteness phrase;
\* the phase advances only none -> first -> confirmation, one step per
\* tool-call-free response, each step appending the assistant text and the
\* verification (resp. confirmation) request and continuing the loop; so no
\* run completes before three tool-call-free responses since phase none.
C2_VerificationBeforeCompletion ==
    /\ [](exit_reason = "completed" =>
             verification_phase = "confirmation" /\ tool_free >= 3)
    /\ [][/\ (exit_reason' = "completed" /\ exit_reason # "completed") =>
                /\ verification_phase = "confirmation"
                /\ \E r \in NoToolResponses :
                      r.text.k # "incomplete" /\ RespondNoToolsWith(r)
                /\ \A r \in ToolResponses : ~RespondWithToolsWith(r)
          /\ (verification_phase' # verification_phase
                /\ verification_phase' # "none") =>
                /\ <<verification_phase, verification_phase'>>
                      \in {<<"none", "first">>, <<"first", "confirmation">>}
                /\ pc' = "loop"
                /\ \E r \in NoToolResponses :
                      /\ RespondNoToolsWith(r)
                      /\ messages' = messages \o
                            <<AssistantMsg(r.text, <<>>),
                              IF verification_phase = "none"
                              THEN VerificationPrompt
                              ELSE ConfirmationPrompt(r.text)>>]_vars

\* a run completed on its third tool-call-free response
C2_Witness ==
    /\ pc = "done"
    /\ exit_reason = "completed"
    /\ tool_free = 3
    /\ verification_phase = "confirmation"

\* C3 as stated: in phase AWAITING_CONFIRMATION a tool-call-free response with
\* the incompleteness phrase never terminates the loop (phase reset to none,
\* assistant text and continue instruction appended, loop continues), and any
\* other tool-call-free response in that phase is terminal.
C3_IncompleteNeverTerminates ==
    [][\A r \in NoToolResponses :
          (verification_phase = "confirmation" /\ RespondNoToolsWith(r)) =>
             IF r.text.k = "incomplete"
             THEN /\ verification_phase' = "none"
                  /\ pc' = "loop"
                  /\ messages' = messages \o
                        <<AssistantMsg(r.text, <<>>), ContinuePrompt>>
             ELSE pc' = "done"]_vars

\* C3 amended: the cost check comes first. In phase AWAITING_CONFIRMATION a
\* tool-call-free response that brings the accumulated cost to the limit ends
\* the loop by the cost check whatever its text; below the limit, a response
\* with the incompleteness phrase resets the phase to none, appends the
\* assistant text and the continue instruction and continues the loop, and any
\* other response completes the run.
C3_IncompleteResetsBelowLimit ==
    [][\A r \in NoToolResponses :
          (verification_phase = "confirmation" /\ RespondNoToolsWith(r)) =>
             IF total_cost + r.cost >= CostLimit
             THEN /\ pc' = "done"
                  /\ exit_reason' = "cost_limit"
                  /\ messages' = messages
                  /\ verification_phase' = verification_phase
             ELSE IF r.text.k = "incomplete"
             THEN /\ verification_phase' = "none"
                  /\ pc' = "loop"
                  /\ messages' = messages \o
                        <<AssistantMsg(r.text, <<>>), ContinuePrompt>>
             ELSE pc' = "done" /\ exit_reason' = "completed"]_vars

\* the third tool-call-free response carried the phrase: phase reset, loop goes on
C3_Witness ==
    /\ pc = "loop"
    /\ verification_phase = "none"
    /\ tool_free = 3
    /\ messages[Len(messages)] = ContinuePrompt
    /\ messages[Len(messages) - 1].role = "assistant"
    /\ messages[Len(messages) - 1].content.text.k = "incomplete"

\* C4 as stated: after an authentication error, or a retryable error that has
\* failed all attempts, the loop has failed and stops; no later iteration
\* issues another transport call.
C4_NoCallAfterFatalError == turn_failed > 0 => pc # "attempt"

\* C5: within one iteration the main call is attempted at most 5 times: a
\* retryable failure on attempt k < 5 is followed by attempt k + 1 of the same
\* iteration, a failure on attempt 5 ends the attempts, and an authentication
\* error or the cost-limit error ends them at once; the next attempt after
\* that is attempt 1 of the next iteration.
C5_BoundedAttempts ==
    /\ [](pc = "attempt" => attempt \in 1..MAX_RETRIES)
    /\ [][/\ \A e \in LLMErrors :
                ChatErrorWith(e) =>
                   IF e.type = "LLMError" /\ e.code = "authentication_error"
                   THEN pc' # "attempt" /\ attempt' = attempt
                   ELSE IF attempt < 5
                   THEN /\ pc' = "attempt"
                        /\ attempt' = attempt + 1
                        /\ iteration' = iteration
                   ELSE pc' # "attempt" /\ attempt' = attempt
          /\ (pc = "attempt" /\ llm_total_cost >= CostLimit) =>
                pc' = "done" /\ attempt' = attempt
          /\ (pc # "attempt" /\ pc' = "attempt") =>
                iteration' = iteration + 1 /\ attempt' = 1]_vars

\* the fifth attempt of an iteration is being made
C5_Witness ==
    /\ pc = "attempt"
    /\ attempt = MAX_RETRIES
    /\ sent # <<>>

\* C6: budget exhaustion ends the loop cleanly and is not retried. A main call
\* made when the client's cost has reached the limit (the transport raises
\* the cost-limit error) and a successful response that brings the accumulated
\* cost to the limit both lead straight out of the loop, with one terminal
\* event and the context marked done once; no step follows.
C6_BudgetExhaustionStops ==
    /\ []((total_cost >= CostLimit \/ exit_reason = "cost_limit_error") =>
             /\ pc = "done"
             /\ is_done = 1
             /\ turn_completed + turn_failed >= 1)
    /\ [][/\ pc # "done"
          /\ (pc = "attempt" /\ llm_total_cost >= CostLimit) =>
                /\ pc' = "done"
                /\ exit_reason' = "cost_limit_error"
                /\ turn_failed' = turn_failed + 1
                /\ is_done' = is_done + 1
                /\ attempt' = attempt
          /\ total_cost' >= CostLimit =>
                /\ pc' = "done"
                /\ exit_reason' = "cost_limit"
                /\ turn_completed' = turn_completed + 1
                /\ is_done' = is_done + 1]_vars

\* the transport raised the cost-limit error although the loop's own total
\* was still below the limit: the summarisation call had used the budget
C6_Witness ==
    /\ pc = "done"
    /\ exit_reason = "cost_limit_error"
    /\ total_cost < CostLimit
    /\ is_done = 1

\* C7: on a malformed-request error that is retried, the transcript is
\* restored to the last known-good snapshot (the transcript at the most recent
\* successful main call, the initial transcript if there was none), the
\* cached view is rebuilt from it, and every main call sends the cached view,
\* so the next attempt sends the rolled-back transcript.
C7_RollbackToLastGood ==
    /\ [](prev_messages = good_snapshot)
    /\ [][/\ \A e \in LLMErrors :
                (/\ e.type = "LLMError"
                 /\ e.bad_request
                 /\ e.code # "authentication_error"
                 /\ ChatErrorWith(e)) =>
                    /\ messages' = good_snapshot
                    /\ pc' = "attempt" =>
                          cached_messages' = apply_caching(good_snapshot, cache_enabled)
          /\ pc = "attempt" => sent' = cached_messages]_vars

\* a retry after a rollback in the third iteration: the two messages appended
\* after the last successful call are gone, the cached view is rebuilt, and
\* the rejected transcript was a different one
C7_Witness ==
    /\ pc = "attempt"
    /\ attempt >= 2
    /\ iteration = 3
    /\ tool_free = 2
    /\ Len(messages) = Len(InitialMessages) + 2
    /\ messages = good_snapshot
    /\ cached_messages = apply_caching(good_snapshot, cache_enabled)
    /\ Len(sent) = Len(InitialMessages) + 4

\* C8 as stated: every tool message directly follows the assistant message
\* that called it or another tool message, so no message of another role
\* stands between an assistant message and the last of its tool messages.
C8_ToolMessagesContiguous ==
    \A i \in 1..Len(messages) :
       messages[i].role = "tool" =>
          /\ i > 1
          /\ \/ messages[i - 1].role = "tool"
             \/ messages[i - 1].role = "assistant" /\ messages[i - 1].tool_calls # <<>>

\* C9: the tool messages of a turn answer the calls of its assistant message
\* in call order, and execute_batch returns only when every future is done,
\* with one result per call, the result at index i being that of call i,
\* whatever the order in which the workers finished.
C9_ResultsInCallOrder ==
    /\ \A i \in 1..Len(messages) :
          (messages[i].role = "assistant" /\ messages[i].tool_calls # <<>>) =>
             LET later == {j \in (i + 1)..Len(messages) : messages[j].role = "assistant"}
                 stop == IF later = {} THEN Len(messages) + 1
                         ELSE CHOOSE j \in later : \A k \in later : j <= k
                 answers == SelectSeq(SubSeq(messages, i + 1, stop - 1),
                                      LAMBDA m : m.role = "tool")
             IN  /\ Len(answers) = Len(messages[i].tool_calls)
                 /\ \A k \in 1..Len(answers) :
                       answers[k].tool_call_id = messages[i].tool_calls[k].id
    /\ bpc = "returned" =>
          /\ Len(returned) = Len(calls)
          /\ \A i \in 1..Len(calls) :
                /\ returned[i].kind = "result"
                /\ returned[i].call = calls[i]
                /\ Len(calls) > 1 => futures[i].state = "done"

\* a batch returned whose last call finished first and whose first and last
\* calls differ in key and in outcome
C9_Witness ==
    /\ bpc = "returned"
    /\ Len(calls) >= 3
    /\ collected[1] = Len(calls)
    /\ calls[1] # calls[Len(calls)]
    /\ returned[1].success # returned[Len(calls)].success

\* C10: in every transcript handed to the transport, by the main call or by
\* the summarisation call, each tool message's tool-call id is listed by an
\* assistant message earlier in that transcript.
C10_NoOrphanSent ==
    \A i \in 1..Len(sent) :
       sent[i].role = "tool" =>
          \E j \in 1..(i - 1) :
             /\ sent[j].role = "assistant"
             /\ \E k \in 1..Len(sent[j].tool_calls) :
                   sent[j].tool_calls[k].id = sent[i].tool_call_id

\* a transcript was sent after a compaction that kept a tool turn
C10_Witness ==
    /\ \E i \in 1..Len(sent) : sent[i].role = "tool"
    /\ \E i \in 1..Len(sent) :
          /\ sent[i].role = "user"
          /\ sent[i].content.list = FALSE
          /\ sent[i].content.text.k = "summary"

ListedIds(ms) ==
    UNION {{ms[i].tool_calls[k].id : k \in 1..Len(ms[i].tool_calls)} :
              i \in {j \in 1..Len(ms) : ms[j].role = "assistant"}}

\* C12 as stated: for every input transcript, every tool message left in the
\* output of the orphan repair carries a call id that some assistant message
\* lists, the others having been converted to user messages or dropped.
C12_NoDanglingToolMessage ==
    fpc # "start" =>
       \A i \in 1..Len(output) :
          output[i].role = "tool" =>
             output[i].tool_call_id \in ListedIds(output)

\* C13: the orphan repair is idempotent: applied to its own output it returns
\* that output.
C13_RepairIdempotent == fpc = "reapplied" => again = output

\* a repair that converted one orphan and dropped another was applied twice
C13_Witness ==
    /\ fpc = "reapplied"
    /\ again = output
    /\ 0 < Len(output)
    /\ Len(output) < Len(transcript)
    /\ \E i \in 1..Len(output) :
          /\ output[i].role = "user"
          /\ output[i].content.text.k = "previous_output"
    /\ \E i \in 1..Len(output) : output[i].role = "tool"

\* the first message run_compaction keeps after a non-empty block
KeptStart == (CHOOSE i \in compact_ids : \A j \in compact_ids : j <= i) + 1

\* the budget of the kept suffix: target - protected - summary estimate
MaxKept(ms) ==
    DefaultTargetTokens
    - estimate_total_tokens(SubSeq(ms, 1, PROTECTED_MESSAGE_COUNT))
    - SUMMARY_TOKEN_ESTIMATE

\* the nearest assistant message before position i, 0 if there is none
OwnerPos(ms, i) ==
    LET js == {j \in 1..(i - 1) : ms[j].role = "assistant"}
    IN  IF js = {} THEN 0 ELSE CHOOSE j \in js : \A k \in js : k <= j

\* the tool message at i directly follows the assistant message that calls it
FollowsItsAssistant(ms, i) ==
    LET j == OwnerPos(ms, i)
    IN  /\ j > 0
        /\ \A k \in (j + 1)..(i - 1) : ms[k].role = "tool"
        /\ \E c \in 1..Len(ms[j].tool_calls) :
              ms[j].tool_calls[c].id = ms[i].tool_call_id

\* C14: whenever run_compaction selects a non-empty block, the first kept
\* message is an assistant message, whether the kept suffix fits the budget
\* or the cut fell back to the second-to-last assistant; so a kept tool
\* message that directly follows its assistant message never has that
\* assistant message inside the block.
C14_KeptSuffixStartsOnAssistant ==
    fpc = "applied" /\ compact_ids # {} =>
       /\ KeptStart <= Len(transcript)
       /\ transcript[KeptStart].role = "assistant"
       /\ \A i \in KeptStart..Len(transcript) :
             transcript[i].role = "tool" /\ FollowsItsAssistant(transcript, i)
                => OwnerPos(transcript, i) \notin compact_ids

\* the fallback case: the kept suffix exceeds its budget, starts on an
\* assistant message with calls and holds their tool messages, and the
\* block holds an earlier tool turn
C14_Witness ==
    /\ fpc = "applied"
    /\ compact_ids # {}
    /\ estimate_total_tokens(SubSeq(transcript, KeptStart, Len(transcript)))
          > MaxKept(transcript)
    /\ transcript[KeptStart].tool_calls # <<>>
    /\ \E i \in KeptStart..Len(transcript) :
          transcript[i].role = "tool" /\ FollowsItsAssistant(transcript, i)
    /\ \E i \in compact_ids : transcript[i].role = "assistant"

CompactorInput(ms) ==
    prune_old_tool_outputs(IF count_total_images(ms) > IMAGE_PRUNE_TARGET
                           THEN prune_old_images(ms, IMAGE_PRUNE_TARGET) ELSE ms)

\* the summarization call raised an error or returned empty text
SummaryFailure(out) == out.kind # "ok" \/ out.text.n = 0

\* C16: a failed summarization is neither fatal nor destructive. When the
\* summarization call of an iteration raises or returns empty text, the
\* context manager returns what it handed to the compactor, the loop's
\* transcript is unchanged, no failure is recorded, and the iteration goes on
\* to its first main call.
C16_CompactionFailureHarmless ==
    [][\A out \in CompactOutcomes :
          (/\ pc = "loop"
           /\ SummaryFailure(out)
           /\ BeginIterationWith(out)
           /\ manage_context(messages, out, FALSE).called)
          => /\ context_messages' = CompactorInput(messages)
             /\ run_compaction(CompactorInput(messages), out).messages
                   = CompactorInput(messages)
             /\ messages' = messages
             /\ turn_failed' = turn_failed
             /\ pc' = "attempt"
             /\ attempt' = 1
             /\ cached_messages'
                   = apply_caching(CompactorInput(messages), cache_enabled)]_vars

\* the first main call of an iteration is about to be made over budget: the
\* summarization request was the last thing sent and no summary came back
C16_Witness ==
    /\ pc = "attempt"
    /\ attempt = 1
    /\ sent # <<>>
    /\ sent[Len(sent)].content.text.k = "compaction_prompt"
    /\ \A i \in 1..Len(context_messages) :
          context_messages[i].content.text.k # "summary"
    /\ is_overflow(estimate_total_tokens(context_messages))

\* positions of the assistant messages after the protected ones
CompactableAssistants(ms) ==
    {i \in (PROTECTED_MESSAGE_COUNT + 1)..Len(ms) : ms[i].role = "assistant"}

\* C17 as stated: a transcript above the target with only 2 assistant messages
\* after the protected ones is returned unchanged, and the summarizer is not
\* called.
C17_TwoAssistantsRefused ==
    (/\ fpc = "applied"
     /\ estimate_total_tokens(transcript) > DefaultTargetTokens
     /\ Cardinality(CompactableAssistants(transcript)) = 2)
    => output = transcript /\ ~called

\* C17 amended: a transcript above the target with fewer than 2 assistant
\* messages after the protected ones is returned unchanged, nothing is
\* selected and the summarizer is not called.
C17_FewerThanTwoAssistantsRefused ==
    (/\ fpc = "applied"
     /\ estimate_total_tokens(transcript) > DefaultTargetTokens
     /\ Cardinality(CompactableAssistants(transcript)) < 2)
    => output = transcript /\ ~called /\ compact_ids = {}

\* a transcript above the target whose only assistant message comes after
\* other compactable messages was returned as it was
C17_Witness ==
    /\ fpc = "applied"
    /\ estimate_total_tokens(transcript) > DefaultTargetTokens
    /\ Cardinality(CompactableAssistants(transcript)) = 1
    /\ transcript[Len(transcript)].role = "assistant"
    /\ Len(transcript) > PROTECTED_MESSAGE_COUNT + 1
    /\ output = transcript
    /\ ~called

\* the assistant positions the kept suffix may start at: all but the last
StartCandidates(ms) ==
    {i \in CompactableAssistants(ms) :
        \E j \in CompactableAssistants(ms) : j > i}

\* the candidates from which the rest of the transcript fits the budget
FittingStarts(ms) ==
    {i \in StartCandidates(ms) :
        estimate_total_tokens(SubSeq(ms, i, Len(ms))) <= MaxKept(ms)}

MinOf(S) == CHOOSE i \in S : \A j \in S : i <= j
MaxOf(S) == CHOOSE i \in S : \A j \in S : j <= i

\* C18: when the transcript exceeds the target and at least 2 assistant
\* messages follow the protected ones, the kept suffix starts at the smallest
\* assistant position, the last one excepted, from which the rest of the
\* transcript fits target - protected - 4096, or at the second-to-last
\* assistant position when none fits; the block is every position from the
\* end of the protected messages up to, not including, that start.
C18_SmallestFittingStart ==
    (/\ fpc = "applied"
     /\ estimate_total_tokens(transcript) > DefaultTargetTokens
     /\ Cardinality(CompactableAssistants(transcript)) >= 2)
    => LET start == IF FittingStarts(transcript) # {}
                    THEN MinOf(FittingStarts(transcript))
                    ELSE MaxOf(StartCandidates(transcript))
       IN  compact_ids = (PROTECTED_MESSAGE_COUNT + 1)..(start - 1)

\* two assistant positions fit the budget and the earlier one was chosen,
\* behind a block that was summarized
C18_Witness ==
    /\ fpc = "applied"
    /\ called
    /\ Cardinality(FittingStarts(transcript)) >= 2
    /\ compact_ids # {}
    /\ KeptStart = MinOf(FittingStarts(transcript))

\* the positions at which the pruner's output differs from its input
PrunedPositions == {i \in 1..Len(transcript) : output[i] # transcript[i]}

\* the tokens recovered: the estimates of the contents that were replaced
RECURSIVE RecoveredTokens(_)
RecoveredTokens(S) ==
    IF S = {} THEN 0
    ELSE LET i == CHOOSE j \in S : TRUE
         IN  ContentTokens(transcript[i].content) + RecoveredTokens(S \ {i})

\* C19: the pruner's output is as long as its input and differs from it only
\* at tool messages, whose content became the prune marker and whose other
\* fields are unchanged; it differs at all only when the recoverable total
\* exceeds PRUNE_MINIMUM, and is the input itself otherwise.
C19_PrunerFrame ==
    fpc # "start" =>
       /\ Len(output) = Len(transcript)
       /\ \A i \in PrunedPositions :
             /\ transcript[i].role = "tool"
             /\ output[i] = [transcript[i] EXCEPT !.content = StrContent(PRUNE_MARKER)]
       /\ output # transcript => RecoveredTokens(PrunedPositions) > PRUNE_MINIMUM
       /\ PruneDecision(transcript).pruned <= PRUNE_MINIMUM => output = transcript

\* a scan that marked a short output behind the protected amount and
\* recovered too little: the transcript came back as it was
C19_Witness ==
    /\ fpc = "applied"
    /\ PruneDecision(transcript).to_prune # {}
    /\ PruneDecision(transcript).pruned <= PRUNE_MINIMUM
    /\ output = transcript

\* C20: the pruner applied to its own output, no message added in between,
\* returns that output.
C20_PrunerIdempotent == fpc = "reapplied" => again = output

\* the first run pruned an old output and left a newer one, which the second
\* run counts again before it meets the marker
C20_Witness ==
    /\ fpc = "reapplied"
    /\ again = output
    /\ \E i \in 1..Len(output) :
          /\ IsPruneMarker(output[i].content)
          /\ ~IsPruneMarker(transcript[i].content)
          /\ \E j \in (i + 1)..Len(output) :
                /\ output[j].role = "tool"
                /\ ~IsPruneMarker(output[j].content)
                /\ PruneDecision(output).total > 0

\* user messages of a transcript
UserTurns(ms) == {i \in 1..Len(ms) : ms[i].role = "user"}

\* tool messages beyond the protected window: at least PROTECT_LAST_TURNS
\* user messages come after them
BeyondWindow(ms) ==
    {i \in 1..Len(ms) :
        /\ ms[i].role = "tool"
        /\ Cardinality({j \in UserTurns(ms) : j > i}) >= PROTECT_LAST_TURNS}

\* of those, the ones met once the running total has passed the budget
PastBudget ==
    {i \in BeyondWindow(transcript) :
        RecoveredTokens({j \in BeyondWindow(transcript) : j >= i}) > PRUNE_PROTECT}

\* scenario A: 3 user turns, 60,000 tokens of tool output beyond the window
ScenarioA ==
    /\ fpc = "applied"
    /\ Cardinality(UserTurns(transcript)) = 3
    /\ \A i \in BeyondWindow(transcript) : ~IsPruneMarker(transcript[i].content)
    /\ RecoveredTokens(BeyondWindow(transcript)) = 60000

MarkersMet == {i \in BeyondWindow(transcript) : IsPruneMarker(transcript[i].content)}

\* C22: the pruner replaces no tool message of the most recent 2 user turns,
\* none met while the running total of tool-output tokens is at most
\* PRUNE_PROTECT, and none older than the first already pruned output the
\* scan meets.
C22_PrunerProtects ==
    fpc # "start" =>
       \A i \in PrunedPositions :
          /\ i \in BeyondWindow(transcript)
          /\ RecoveredTokens({j \in BeyondWindow(transcript) : j >= i}) > PRUNE_PROTECT
          /\ \A j \in MarkersMet : j < i

\* a prune that left alone an output of the last two turns and an output
\* older than a marker
C22_Witness ==
    /\ fpc = "applied"
    /\ output # transcript
    /\ \E i \in 1..Len(transcript) :
          /\ transcript[i].role = "tool"
          /\ i \notin BeyondWindow(transcript)
          /\ ContentTokens(transcript[i].content) > PRUNE_PROTECT
          /\ output[i] = transcript[i]
    /\ \E j \in MarkersMet : \E i \in BeyondWindow(transcript) :
          /\ i < j
          /\ ContentTokens(transcript[i].content) > PRUNE_PROTECT
          /\ output[i] = transcript[i]

\* image parts of a transcript, counted part by part
RECURSIVE ImageCount(_)
ImageCount(ms) ==
    IF ms = <<>> THEN 0
    ELSE Cardinality({k \in 1..Len(Head(ms).content.parts) :
                         Head(ms).content.parts[k].type \in {"image_url", "image"}})
         + ImageCount(Tail(ms))

\* positions of the messages with an assistant message after them
AnalyzedPositions(ms) ==
    {i \in 1..Len(ms) : \E j \in (i + 1)..Len(ms) : ms[j].role = "assistant"}

\* image parts in the messages at the positions S
RECURSIVE ImagesAt(_, _)
ImagesAt(ms, S) ==
    IF S = {} THEN 0
    ELSE LET i == CHOOSE j \in S : TRUE
         IN  ImageCount(<<ms[i]>>) + ImagesAt(ms, S \ {i})

\* the images that may be evicted: any over the hard ceiling, else analyzed
EvictableImages(ms) ==
    IF ImageCount(ms) > MAX_IMAGES_PER_REQUEST THEN ImageCount(ms)
    ELSE ImagesAt(ms, AnalyzedPositions(ms))

\* C23: an input with more than 100 image parts leaves the image evictor with
\* at most 95, and an input with enough evictable images leaves it with at
\* most the soft target of 10.
C23_ImagePostCondition ==
    fpc = "applied" =>
       /\ ImageCount(transcript) > MAX_IMAGES_PER_REQUEST
             => ImageCount(output) <= MAX_IMAGES_PER_REQUEST - IMAGE_HARD_BUFFER
       /\ EvictableImages(transcript) >= ImageCount(transcript) - IMAGE_PRUNE_TARGET
             => ImageCount(output) <= IMAGE_PRUNE_TARGET

\* an input over the hard ceiling with unanalyzed images was brought down
C23_Witness ==
    /\ fpc = "applied"
    /\ ImageCount(transcript) > MAX_IMAGES_PER_REQUEST
    /\ ImagesAt(transcript, AnalyzedPositions(transcript)) > 0
    /\ ImagesAt(transcript, AnalyzedPositions(transcript)) < ImageCount(transcript)
    /\ 0 < ImageCount(output)
    /\ ImageCount(output) <= IMAGE_PRUNE_TARGET

\* positions of the messages whose images the evictor replaced
EvictedPositions == {i \in 1..Len(transcript) : output[i] # transcript[i]}

\* positions of the image-bearing messages among S
WithImages(ms, S) == {i \in S : ImageCount(<<ms[i]>>) > 0}

\* C24 as stated: the image evictor evicts oldest-first and analyzed images
\* before unanalyzed ones, and evicts an unanalyzed image only if the count is
\* still over the hard ceiling once every analyzed image has been evicted; an
\* input that evicting the analyzed images alone brings to the ceiling or
\* below keeps all of its unanalyzed images.
C24_UnanalyzedOnlyOverCeiling ==
    fpc = "applied" =>
       LET analyzed == WithImages(transcript, AnalyzedPositions(transcript))
           unanalyzed == WithImages(transcript, 1..Len(transcript)) \ analyzed
       IN  /\ \A i \in EvictedPositions \cap analyzed :
                 \A j \in analyzed : j < i => j \in EvictedPositions
           /\ \A i \in EvictedPositions \cap unanalyzed :
                 \A j \in unanalyzed : j < i => j \in EvictedPositions
           /\ EvictedPositions \cap unanalyzed # {} =>
                 /\ analyzed \subseteq EvictedPositions
                 /\ ImageCount(transcript) - ImagesAt(transcript, analyzed)
                       > MAX_IMAGES_PER_REQUEST

\* the message out is the message in with each image part replaced in place
\* by the text placeholder and everything else as it was
ImagesReplacedInPlace(in, out) ==
    /\ in.content.list
    /\ out = [in EXCEPT !.content.parts = out.content.parts]
    /\ Len(out.content.parts) = Len(in.content.parts)
    /\ \A k \in 1..Len(in.content.parts) :
          out.content.parts[k] =
             IF in.content.parts[k].type \in {"image_url", "image"}
             THEN [type |-> "text", text |-> IMAGE_PRUNE_MARKER, cache |-> FALSE]
             ELSE in.content.parts[k]

\* C25: the image evictor returns its input when the image count is within
\* the soft target, and when it is over the target, not over the hard
\* ceiling, and no image is analyzed; otherwise the output has the messages
\* of the input in the same number and order, a message is either unchanged
\* or has each of its image parts replaced in place by one text placeholder,
\* its other parts and fields unchanged.
C25_ImageFrame ==
    fpc = "applied" =>
       /\ ImageCount(transcript) <= IMAGE_PRUNE_TARGET => output = transcript
       /\ (/\ ImageCount(transcript) <= MAX_IMAGES_PER_REQUEST
           /\ ImagesAt(transcript, AnalyzedPositions(transcript)) = 0)
             => output = transcript
       /\ Len(output) = Len(transcript)
       /\ \A i \in 1..Len(transcript) :
             \/ output[i] = transcript[i]
             \/ ImagesReplacedInPlace(transcript[i], output[i])

\* an eviction that replaced the images of one message of the input and left
\* those of another
C25_Witness ==
    /\ fpc = "applied"
    /\ \E i \in EvictedPositions :
          /\ output[i].content.parts[1] = transcript[i].content.parts[1]
          /\ Len(output[i].content.parts) > 6
    /\ \E j \in 1..Len(transcript) :
          /\ ImageCount(<<transcript[j]>>) > 0
          /\ output[j] = transcript[j]

\* the cache annotations a transcript carries
RECURSIVE Annotations(_)
Annotations(ms) ==
    IF ms = <<>> THEN 0
    ELSE Cardinality({k \in 1..Len(Head(ms).content.parts) :
                         Head(ms).content.parts[k].cache})
         + Annotations(Tail(ms))

\* the messages the selector changed
MarkedPositions == {i \in 1..Len(transcript) : output[i] # transcript[i]}

\* no annotation sits on an empty text or on a part that is not text
NoEmptyAnnotated(ms) ==
    \A i \in 1..Len(ms) : \A k \in 1..Len(ms[i].content.parts) :
       ms[i].content.parts[k].cache =>
          /\ ms[i].content.parts[k].type = "text"
          /\ ms[i].content.parts[k].text.n > 0

\* C26: the cache-breakpoint selector marks at most 4 messages, among the
\* first 2 system messages and the last 2 other messages, annotates no empty
\* string and no empty text part, and applied to its own output returns it;
\* no transcript handed to the transport carries more than 4 annotations.
C26_SelectorBounded ==
    /\ fpc # "idle" /\ fpc # "start" =>
          /\ Cardinality(MarkedPositions) <= MAX_CACHED_SYSTEM + MAX_CACHED_FINAL
          /\ Annotations(output) <= MAX_CACHED_SYSTEM + MAX_CACHED_FINAL
          /\ \A i \in MarkedPositions :
                IF transcript[i].role = "system"
                THEN Cardinality({j \in 1..(i - 1) : transcript[j].role = "system"})
                        < MAX_CACHED_SYSTEM
                ELSE Cardinality({j \in (i + 1)..Len(transcript) :
                                     transcript[j].role # "system"})
                        < MAX_CACHED_FINAL
          /\ NoEmptyAnnotated(output)
    /\ fpc = "reapplied" => again = output
    /\ Annotations(sent) <= MAX_CACHED_SYSTEM + MAX_CACHED_FINAL
    /\ NoEmptyAnnotated(sent)
    /\ Annotations(cached_messages) <= MAX_CACHED_SYSTEM + MAX_CACHED_FINAL

\* four messages were marked, a third system message and an empty string
\* were not, and the second application returned the same
C26_Witness ==
    /\ fpc = "reapplied"
    /\ again = output
    /\ Cardinality(MarkedPositions) = MAX_CACHED_SYSTEM + MAX_CACHED_FINAL
    /\ \E i \in 1..Len(transcript) :
          transcript[i].role = "system" /\ i \notin MarkedPositions

\* the transcript after the image evictor, and after the pruner
Evicted == prune_old_images(transcript, IMAGE_PRUNE_TARGET)

EvictedThenPruned == prune_old_tool_outputs(Evicted)

OverThreshold(ms) == is_overflow(estimate_total_tokens(ms))

\* C27: the Context Manager evicts images first on every call; at or under
\* the threshold and not forced it returns that transcript with no summarizer
\* call; otherwise it prunes tool outputs and, at or under the threshold and
\* not forced, returns the pruned transcript with no summarizer call;
\* otherwise it returns what the AI Compactor makes of the pruned transcript,
\* over budget or not.
C27_ManagerOrder ==
    [][\A out \in CompactOutcomes : ManageApplyWith(out) =>
          IF ~forced /\ ~OverThreshold(Evicted)
          THEN output' = Evicted /\ ~called'
          ELSE IF ~forced /\ ~OverThreshold(EvictedThenPruned)
          THEN output' = EvictedThenPruned /\ ~called'
          ELSE LET r == run_compaction(EvictedThenPruned, out)
               IN  output' = r.messages /\ called' = r.called]_vars

\* images were evicted while the estimate was under the threshold
C27_Witness ==
    /\ fpc = "applied"
    /\ ~forced
    /\ ~OverThreshold(transcript)
    /\ output = Evicted
    /\ output # transcript

\* the pruner alone brought the estimate under the threshold
C27_WitnessPruned ==
    /\ fpc = "applied"
    /\ ~forced
    /\ OverThreshold(Evicted)
    /\ output = EvictedThenPruned
    /\ output # Evicted
    /\ ~called

\* the compactor's result was returned still over the threshold
C27_WitnessOverBudget ==
    /\ fpc = "applied"
    /\ called
    /\ output # EvictedThenPruned
    /\ OverThreshold(output)

\* C28: the Context Manager applied without the flag to the transcript it
\* just returned returns it unchanged and makes no summarizer call, also when
\* that transcript is still over the threshold after a compaction.
C28_ManagerIdempotent ==
    fpc = "reapplied" => again = output /\ ~recalled

\* the first call returned a compacted transcript still over the threshold,
\* and the next call handed its summary to the summarizer again
C28_SummaryResummarized ==
    /\ fpc = "reapplied"
    /\ called
    /\ output # EvictedThenPruned
    /\ OverThreshold(output)
    /\ recalled

\* C29: the token estimator is monotonic: appending a non-empty text
\* part, lengthening a text, adding a tool call or an image part never
\* lowers the estimate of the message, and appending a message never lowers
\* the estimate of the transcript.
C29_EstimatorMonotonic ==
    [][/\ Len(output') >= Len(output)
       /\ \A i \in 1..Len(output) : output'[i] >= output[i]
       /\ SumSeq(output') >= SumSeq(output)
       /\ SumSeq(output') = estimate_total_tokens(transcript')]_<<transcript, output>>

\* a message that received an image part and then a text part, beside an
\* assistant message that received a tool call
C29_Witness ==
    /\ fpc = "estimated"
    /\ \E i \in 1..Len(transcript) :
          /\ Len(transcript[i].content.parts) = 2
          /\ transcript[i].content.parts[1].type = "image_url"
          /\ transcript[i].content.parts[2].type = "text"
          /\ output[i] > IMAGE_TOKENS + ROLE_OVERHEAD
    /\ \E i \in 1..Len(transcript) :
          /\ transcript[i].tool_calls # <<>>
          /\ output[i] > ROLE_OVERHEAD

\* the estimate as stated: the texts of the parts, 1000 for every part the
\* image evictor counts as an image, the tool calls, and the role overhead
StatedEstimate(m) ==
    (IF m.content.list
       THEN SumSeq([k \in 1..Len(m.content.parts) |->
                       m.content.parts[k].text.n \div APPROX_CHARS_PER_TOKEN])
       ELSE m.content.text.n \div APPROX_CHARS_PER_TOKEN)
    + IMAGE_TOKENS * count_images_in_message(m)
    + SumSeq([k \in 1..Len(m.tool_calls) |->
                 (m.tool_calls[k].name \div APPROX_CHARS_PER_TOKEN)
                 + (m.tool_calls[k].arguments \div APPROX_CHARS_PER_TOKEN)])
    + ROLE_OVERHEAD

\* C30: the estimate of a message is the sum of floor(len/4) over its text
\* parts, plus 1000 for every image part the Image Evictor counts, plus
\* floor(len/4) of each tool call's name and arguments, plus 4.
C30_EstimateFormula ==
    fpc = "estimated" =>
       \A i \in 1..Len(transcript) : output[i] = StatedEstimate(transcript[i])

\* a message whose parts of type "image" were charged nothing
C30_ImagePartUncharged ==
    /\ fpc = "estimated"
    /\ \E i \in 1..Len(transcript) :
          /\ count_images_in_message(transcript[i]) = MaxParts
          /\ output[i] = ROLE_OVERHEAD

C32_ProtectedHeadKept ==
    /\ Len(messages) >= PROTECTED_MESSAGE_COUNT
    /\ SubSeq(messages, 1, PROTECTED_MESSAGE_COUNT) = ProtectedMessages
    /\ ProtectedMessages[1].role = "system"
    /\ ProtectedMessages[2].content.text.k = "instruction"

\* the loop adopted a compacted transcript: the summary is its third message
C32_Witness ==
    /\ Len(messages) > PROTECTED_MESSAGE_COUNT
    /\ messages[PROTECTED_MESSAGE_COUNT + 1].content.text.k = "summary"
    /\ SubSeq(messages, 1, PROTECTED_MESSAGE_COUNT) = ProtectedMessages

\* usable context times the configured auto_compact_threshold
ConfiguredThreshold ==
    (get_usable_context * CONFIG_AUTO_COMPACT_THRESHOLD_PCT) \div 100

\* C33: the overflow threshold is (200,000 - 32,000) times the configured
\* auto_compact_threshold of 85%: a transcript estimated at no more than
\* 142,800 tokens is returned by the Context Manager without pruning or
\* compaction.
C33_ConfiguredThreshold ==
    /\ get_usable_context = 168000
    /\ ConfiguredThreshold = 142800
    /\ fpc = "applied" /\ ~forced
          /\ estimate_total_tokens(Evicted) <= ConfiguredThreshold
          => output = Evicted /\ ~called

\* a transcript estimated under 142,800 tokens came back pruned
C33_PrunedUnderConfigured ==
    /\ fpc = "applied"
    /\ ~forced
    /\ estimate_total_tokens(transcript) <= ConfiguredThreshold
    /\ Evicted = transcript
    /\ output = EvictedThenPruned
    /\ output # transcript

\* manage_context at the top of this iteration replaced a block by a summary
CompactionHappened(out) ==
    LET managed == manage_context(messages, out, FALSE)
    IN  managed.called /\ out.kind = "ok" /\ out.text.n > 0

\* C34: if the AI Compactor replaced a block by a summary in an iteration,
\* the loop adopts the compacted transcript as its own, so that later
\* iterations work on it and the block is not summarized again.
C34_CompactedAdopted ==
    [][\A out \in SummarizerOutcomes(llm_total_cost) :
          BeginIterationWith(out) /\ CompactionHappened(out)
             => messages' = context_messages']_vars

\* a compaction was adopted: the loop's transcript is the compacted one
C34_Adopted ==
    /\ pc = "attempt"
    /\ messages = context_messages
    /\ messages[PROTECTED_MESSAGE_COUNT + 1].content.text.k = "summary"

\* a compaction was not adopted: the loop's transcript still holds the block
C34_NotAdopted ==
    /\ pc = "attempt"
    /\ messages # context_messages
    /\ context_messages[PROTECTED_MESSAGE_COUNT + 1].content.text.k = "summary"
    /\ messages[PROTECTED_MESSAGE_COUNT + 1].content.text.k # "summary"

\* C35: every transcript the loop hands to the transport, in any turn and
\* on any retry, holds at most 100 image parts, each turn appending at most
\* 5 images as one user message after its tool messages.
C35_ImageCeiling ==
    /\ count_total_images(sent) <= MAX_IMAGES_PER_REQUEST
    /\ count_total_images(cached_messages) <= MAX_IMAGES_PER_REQUEST
    /\ count_total_images(output) <= MAX_IMAGES_PER_REQUEST
    \* a retry after a rollback sends the snapshot of the loop's transcript
    /\ count_total_images(transcript) <= MAX_IMAGES_PER_REQUEST
    /\ count_total_images(prev_messages) <= MAX_IMAGES_PER_REQUEST
    /\ fpc = "turned" =>
          count_images_in_message(transcript[Len(transcript)]) <= MAX_IMAGES_PER_TURN

\* the loop's transcript had passed 90 images and was pruned at once, and a
\* request went out after that
C35_Witness ==
    /\ fpc = "sent"
    /\ ToolTurns(transcript) > MaxPriorTurns
    /\ \E i \in 1..Len(transcript) :
          /\ transcript[i].content.list
          /\ \E k \in 1..Len(transcript[i].content.parts) :
                transcript[i].content.parts[k].text = IMAGE_PRUNE_MARKER
    /\ count_total_images(output) > 0

\* C36: a response that carries tool calls leaves the verification phase
\* and the stored verification text as they were; the phase changes only on
\* a response without tool calls.
C36_ToolTurnKeepsPhase ==
    [][/\ \A r \in ToolResponses : RespondWithToolsWith(r) =>
             /\ verification_phase' = verification_phase
             /\ verification_result' = verification_result
       /\ verification_phase' # verification_phase =>
             \E r \in NoToolResponses : RespondNoToolsWith(r)]_vars

\* a tool turn has just ended while a verification was under way
C36_Witness ==
    /\ pc = "loop"
    /\ verification_phase = "confirmation"
    /\ \E i \in 1..Len(messages) :
          /\ messages[i].role = "tool"
          /\ \A j \in (i + 1)..Len(messages) : messages[j].role # "assistant"
          /\ \E j \in 1..(i - 1) : messages[j] = VerificationPrompt

\* C37: once the client's accumulated cost, nested summarization calls
\* included, has reached the cost limit, no request goes to the provider:
\* the nested call and the main call raise the cost-limit error, and the
\* loop ends in the iteration in which the main call raises it.
C37_NoRequestPastLimit ==
    [][llm_total_cost >= CostLimit =>
          /\ llm_total_cost' = llm_total_cost
          /\ ~\E r \in NoToolResponses : RespondNoToolsWith(r)
          /\ ~\E r \in ToolResponses : RespondWithToolsWith(r)
          /\ ~\E e \in LLMErrors : ChatErrorWith(e)
          /\ \A out \in CompactOutcomes :
                BeginIterationWith(out) => out.kind = "cost_limit"
          /\ pc = "attempt" =>
                /\ pc' = "done"
                /\ exit_reason' = "cost_limit_error"
                /\ iteration' = iteration]_vars

\* the summarization calls brought the client to its limit before the loop's
\* own total reached it, and the main call then raised the error
C37_Witness ==
    /\ pc = "done"
    /\ exit_reason = "cost_limit_error"
    /\ llm_total_cost >= CostLimit
    /\ total_cost < CostLimit

\* C38: a run that leaves run_agent_loop marks the context done exactly
\* once, as its last action, with exactly one closing event emitted right
\* before it: turn.completed when the loop ended by completion, by the cost
\* check after a response or by exhaustion of the iterations, turn.failed
\* when the transport raised the cost-limit error; turn.completed is emitted
\* at most once.
C38_OneClosingEvent ==
    /\ [](/\ turn_completed <= 1
          /\ is_done <= 1
          /\ (pc = "done") = (is_done = 1)
          /\ turn_completed = 1 => pc = "done")
    /\ [][/\ pc # "done"
          /\ pc' = "done" =>
                /\ is_done = 0 /\ is_done' = 1
                /\ IF exit_reason' = "cost_limit_error"
                   THEN /\ turn_failed' = turn_failed + 1
                        /\ turn_completed' = turn_completed
                   ELSE /\ exit_reason' \in {"completed", "cost_limit", "max_iterations"}
                        /\ turn_completed' = turn_completed + 1
                        /\ turn_failed' = turn_failed]_vars

\* a run that had emitted turn.failed for a failed iteration and went on
\* ended by exhaustion with one turn.completed and the context done once
C38_Witness ==
    /\ pc = "done"
    /\ exit_reason = "max_iterations"
    /\ turn_failed > 0
    /\ turn_completed = 1
    /\ is_done = 1

\* a successful result stored under the key less than cache_ttl ago
StoredRecently(key) ==
    /\ stored[key] # NoStore
    /\ now - stored[key].cached_at < config.cache_ttl

\* thread w enters execute in this step
Enters(w) == workers[w].wpc = "idle" /\ workers'[w].wpc # "idle"

RegistryCounters ==
    /\ stats.total_executions = stats.successful_executions + stats.failed_executions
    /\ stats.cache_hits <= stats.successful_executions
    /\ \A k \in CacheKeys : cache[k] # NoEntry => cache[k].result.success

C39_WitnessCleared ==
    /\ config.cache_enabled
    /\ \E w \in 1..MaxWorkers :
          /\ workers[w].wpc = "running"
          /\ StoredRecently(workers[w].key)
          /\ stored[workers[w].key].cleared

\* C40: whenever the pruner changes the transcript the estimated total of
\* its output is strictly lower than that of its input, and neither image
\* eviction nor tool-output pruning returns a transcript with a higher
\* estimated total than it received.
C40_EvictionLowersEstimate ==
    /\ fpc = "pruned" /\ output # transcript =>
          estimate_total_tokens(output) < estimate_total_tokens(transcript)
    /\ fpc \in {"pruned", "evicted"} =>
          estimate_total_tokens(output) <= estimate_total_tokens(transcript)

\* image eviction replaced parts of type "image", which the estimator
\* charges nothing, by placeholders, and the estimate went up
C40_EvictionRaisedEstimate ==
    /\ fpc = "evicted"
    /\ output # transcript
    /\ estimate_total_tokens(output) > estimate_total_tokens(transcript)

\* the pruner changed a transcript and the estimate went down
C40_PrunedLower ==
    /\ fpc = "pruned"
    /\ output # transcript
    /\ estimate_total_tokens(output) < estimate_total_tokens(transcript)

====
